---- MODULE Spec2Model ----
(***************************************************************************)
(* The filesystem change-notification pipeline of the repository: the      *)
(* EventHub (pkg/filemanager/eventhub/eventhub.go), its subscribers        *)
(* (eventhub/subscriber.go), the event algebra DebounceEvents              *)
(* (eventhub/event.go) and the durable event store                         *)
(* (inventory/fs_event.go).                                                *)
(*                                                                         *)
(* Granularity.  Every subscriber method runs under the subscriber mutex   *)
(* and every hub method under the hub's exclusive lock, so each hub method *)
(* and each subscriber method called from outside the hub (Publish, the    *)
(* timer callback flush, Owner) is one action.  The consumer of a channel  *)
(* takes no lock: its receives may fall between the sends of one flush,    *)
(* which SendLoop accounts for.                                            *)
(***************************************************************************)
EXTENDS Integers, Sequences, FiniteSets, TLC

VARIABLES
    hubClosed,  \* eventHub.closed (closeCh is closed exactly when it is set)
    topics,     \* eventHub.topics: topic -> (id -> subscriber object)
    cleanupLoop,\* position of the cleanupLoop goroutine: "select" or "done"
    subs,       \* the subscriber objects allocated so far, in allocation order
    store,      \* the FsEvent table: rows in insertion order
    now,        \* the wall clock
    panicked,   \* a goroutine panicked (nil dereference): the process is gone
    last,       \* the operation performed last, its inputs and what it returned
    cryptor,    \* an AES256CTR object (package encrypt)
    source,     \* the encrypted stream the cryptor reads from
    threads     \* the goroutines that call the hub: where each one stands

vars == <<hubClosed, topics, cleanupLoop, subs, store, now, panicked, last,
          cryptor, source, threads>>

(***************************************************************************)
(* Bounds of the model.                                                    *)
(***************************************************************************)
\* Events pending per subscriber id (buffered plus stored) before the
\* publishers pause.
MaxEvents == 2
\* Subscriber objects ever allocated.
MaxSubs == 2
\* Debounce timers per subscriber that are out of the handle's reach (fired
\* and waiting for the mutex, or pending but no longer referenced).
MaxStray == 1
\* Capacity of a subscriber's channel: the source's bufSize (16), scaled down
\* so that a full channel is within reach.
bufSize == 1
\* The offline age after which a subscriber expires: the source's
\* offlineMaxAge (14 days), in clock ticks, scaled down likewise.
offlineMaxAge == 1
\* The clock stops this many ticks after the epoch of the run.
MaxNow == offlineMaxAge + 2
\* Length of the event sequences given to DebounceEvents alone.
MaxLen == 4
\* Length in bytes of the encrypted object behind the cryptor's source.
ObjLen == 5
\* The AES block size in bytes: the 16 of initCipherStream, scaled down so
\* that a short object spans several blocks.
BlockSize == 2

(***************************************************************************)
(* Events (event.go).                                                      *)
(***************************************************************************)
EventTypeCreate == "create"
EventTypeModify == "modify"
EventTypeRename == "rename"
EventTypeDelete == "delete"

Event(type, fileID, from, to) ==
    [type |-> type, file_id |-> fileID, from |-> from, to |-> to]

\* The events the publishers of the hub model emit.
HubEvents ==
    { Event(EventTypeCreate, "f1", "/a", ""),
      Event(EventTypeDelete, "f1", "/a", ""),
      Event(EventTypeModify, "f2", "/b", "") }

\* make(map[...]...)
EmptyMap == [x \in {} |-> x]

\* A removal from order that removes nothing.
RemoveFromOrderNot(order, id) == order

\* order = append(order[:i], order[i+1:]...) for the first i with order[i] = id
RemoveFromOrder(order, id) ==
    IF \E i \in 1..Len(order) : order[i] = id
    THEN LET i == CHOOSE k \in 1..Len(order) :
                     order[k] = id /\ \A j \in 1..(k-1) : order[j] # id
         IN  SubSeq(order, 1, i-1) \o SubSeq(order, i+1, Len(order))
    ELSE order

\* A delete that leaves the key in the map.
KeepKey(f, k) == f

\* delete(states, id)
DeleteKey(f, k) == [x \in DOMAIN f \ {k} |-> f[x]]

\* One iteration of the loop of DebounceEvents over the input.
DebounceStep(acc, e) ==
    IF e.file_id \notin DOMAIN acc.states
    THEN [states |-> acc.states @@
                     (e.file_id :> [baseType |-> e.type,
                                    originalSrc |-> e.from,
                                    currentDst |-> e.to]),
          order |-> Append(acc.order, e.file_id)]
    ELSE LET state == acc.states[e.file_id]
             set(st) == [acc EXCEPT !.states[e.file_id] = st]
             drop == [states |-> DeleteKey(acc.states, e.file_id),
                      order |-> RemoveFromOrder(acc.order, e.file_id)]
         IN
         CASE e.type = EventTypeCreate ->
                IF state.baseType = EventTypeDelete
                THEN set([baseType |-> EventTypeCreate,
                          originalSrc |-> e.from, currentDst |-> ""])
                ELSE acc
           [] e.type = EventTypeModify -> acc
           [] e.type = EventTypeRename ->
                CASE state.baseType = EventTypeCreate ->
                       set([state EXCEPT !.originalSrc = e.to, !.currentDst = ""])
                  [] state.baseType = EventTypeModify ->
                       set([baseType |-> EventTypeRename,
                            originalSrc |-> e.from, currentDst |-> e.to])
                  [] state.baseType = EventTypeRename ->
                       IF state.originalSrc = e.to
                       THEN drop
                       ELSE set([state EXCEPT !.currentDst = e.to])
                  [] OTHER -> acc
           [] e.type = EventTypeDelete ->
                CASE state.baseType = EventTypeCreate -> drop
                  [] state.baseType \in {EventTypeModify, EventTypeRename} ->
                       set([baseType |-> EventTypeDelete,
                            originalSrc |-> e.from, currentDst |-> ""])
                  [] OTHER -> acc
           [] OTHER -> acc

RECURSIVE DebounceFoldChaining(_, _)
\* The loop over the input with a Rename after a Rename always chained,
\* also when it leads back to the original source.
DebounceFoldChaining(acc, in) ==
    IF in = <<>> THEN acc
    ELSE LET e == Head(in)
             chained == /\ e.type = EventTypeRename
                        /\ e.file_id \in DOMAIN acc.states
                        /\ acc.states[e.file_id].baseType = EventTypeRename
         IN  DebounceFoldChaining(
                 IF chained
                 THEN [acc EXCEPT !.states[e.file_id].currentDst = e.to]
                 ELSE DebounceStep(acc, e),
                 Tail(in))

RECURSIVE DebounceFold(_, _)
DebounceFold(acc, in) ==
    IF in = <<>> THEN acc
    ELSE DebounceFold(DebounceStep(acc, Head(in)), Tail(in))

RECURSIVE DebounceEmitSwapped(_, _)
\* The output loop with source and destination of a Rename exchanged.
DebounceEmitSwapped(states, order) ==
    IF order = <<>> THEN <<>>
    ELSE LET fileID == Head(order)
             rest == DebounceEmitSwapped(states, Tail(order))
         IN  IF fileID \notin DOMAIN states THEN rest
             ELSE LET state == states[fileID]
                  IN  IF state.baseType = EventTypeRename
                      THEN <<Event(EventTypeRename, fileID,
                                   state.currentDst, state.originalSrc)>> \o rest
                      ELSE <<Event(state.baseType, fileID,
                                   state.originalSrc, "")>> \o rest

\* The output loop of DebounceEvents: one event per file id left in order.
RECURSIVE DebounceEmit(_, _)
DebounceEmit(states, order) ==
    IF order = <<>> THEN <<>>
    ELSE LET fileID == Head(order)
             rest == DebounceEmit(states, Tail(order))
         IN  IF fileID \notin DOMAIN states THEN rest
             ELSE LET state == states[fileID]
                  IN  IF state.baseType = EventTypeRename
                      THEN <<Event(EventTypeRename, fileID,
                                   state.originalSrc, state.currentDst)>> \o rest
                      ELSE IF state.baseType \in
                                {EventTypeCreate, EventTypeModify, EventTypeDelete}
                      THEN <<Event(state.baseType, fileID,
                                   state.originalSrc, "")>> \o rest
                      ELSE rest

DebounceEvents(in) ==
    LET acc == DebounceFold([states |-> EmptyMap, order |-> <<>>], in)
    IN  DebounceEmit(acc.states, acc.order)

(***************************************************************************)
(* The durable store (inventory.FsEventClient over the FsEvent table).     *)
(* Every call can fail; a failed call leaves the table as it was.          *)
(***************************************************************************)
\* json.Marshal of an Event: the JSON object, as its four members in order.
Marshal(e) == <<e.type, e.file_id, e.from, e.to>>

\* json.Unmarshal into an Event.
Unmarshal(j) == Event(j[1], j[2], j[3], j[4])

\* The ids that parse as UUIDs.
ValidUUIDs == {"c1", "c2"}
NilUUID == "00000000"

\* uuid.FromStringOrNil
FromStringOrNil(id) == IF id \in ValidUUIDs THEN id ELSE NilUUID

\* fsEventClient.Create: one row per event, in one bulk insert.
Create(st, uid, subscriberId, events) ==
    st \o [i \in 1..Len(events) |->
             [subscriber |-> subscriberId, user_fsevent |-> uid,
              event |-> events[i]]]

\* fsEventClient.DeleteBySubscriber: every row of the subscriber id, whoever
\* the user.
DeleteBySubscriber(st, subscriberId) ==
    LET Rest(r) == r.subscriber # subscriberId
    IN  SelectSeq(st, Rest)

\* fsEventClient.TakeBySubscriber: the rows of (subscriber id, user), which
\* are deleted.
TakeBySubscriber(st, subscriberId, userId) ==
    LET Match(r) == r.subscriber = subscriberId /\ r.user_fsevent = userId
        Rest(r) == ~Match(r)
    IN  [res |-> SelectSeq(st, Match), store |-> SelectSeq(st, Rest)]

(***************************************************************************)
(* Subscribers (subscriber.go).  A method maps the subscriber and the      *)
(* table to the set of its possible results: the subscriber and the table  *)
(* afterwards, whether the goroutine panicked, and what a flush did with   *)
(* the buffer (sent on the channel, dropped at a full channel, written to  *)
(* the table).                                                             *)
(*                                                                         *)
(* timer is the state of the time.Timer the handle s.timer refers to:      *)
(* "nil" (no handle), "pending" (armed, not fired) or "expired" (fired:    *)
(* Stop no longer prevents its callback).  fired counts the callbacks that *)
(* have fired and wait for the mutex, orphans the pending timers the       *)
(* handle no longer refers to.                                             *)
(***************************************************************************)
Nil == "nil"

\* inventory.UserFromContext(ctx) is nil or inventory.IsAnonymousUser holds.
NoLoginUser(user) == user \in {Nil, "anonymous"}

newSubscriber(id, user) ==
    [id |-> id, uid |-> user, ch |-> <<>>, chClosed |-> FALSE,
     online |-> TRUE, offlineSince |-> 0,
     buffer |-> <<>>, timer |-> Nil, fired |-> 0, orphans |-> 0,
     ownerCached |-> user, closed |-> FALSE]

Result(s, st) ==
    [sub |-> s, store |-> st, panic |-> FALSE,
     flushed |-> <<>>, sent |-> <<>>, dropped |-> <<>>, written |-> <<>>,
     loaded |-> <<>>]

\* s.timer = time.AfterFunc(debounceDelay, s.flush), after s.timer.Stop()
\* when the handle was set: a pending timer is cancelled, an expired one is
\* not affected.
ArmTimer(s) == [s EXCEPT !.timer = "pending"]

\* if s.timer != nil { s.timer.Stop(); s.timer = nil }
StopTimer(s) == [s EXCEPT !.timer = Nil]

\* subscriber.publishLocked
publishLocked(s, evt) == ArmTimer([s EXCEPT !.buffer = Append(@, evt)])

\* Publish without the check of s.closed.
PublishUnchecked(s, evt) == publishLocked(s, evt)

\* subscriber.Publish
Publish(s, evt) == IF s.closed THEN s ELSE publishLocked(s, evt)

RECURSIVE SendLoopEager(_, _)
\* SendLoop with a channel that refuses its last free slot.
SendLoopEager(ch, evs) ==
    IF evs = <<>> THEN {[ch |-> ch, sent |-> <<>>, dropped |-> <<>>]}
    ELSE UNION { LET c == SubSeq(ch, r + 1, Len(ch))
                 IN  IF Len(c) + 1 < bufSize
                     THEN { [o EXCEPT !.sent = <<Head(evs)>> \o @]
                            : o \in SendLoopEager(Append(c, Head(evs)), Tail(evs)) }
                     ELSE { [o EXCEPT !.dropped = <<Head(evs)>> \o @]
                            : o \in SendLoopEager(c, Tail(evs)) }
                 : r \in 0..Len(ch) }

RECURSIVE SendLoop(_, _)
\* The loop of non-blocking sends of flushLocked.  The consumer may receive
\* any number of the queued events before each send.
SendLoop(ch, evs) ==
    IF evs = <<>> THEN {[ch |-> ch, sent |-> <<>>, dropped |-> <<>>]}
    ELSE UNION { LET c == SubSeq(ch, r + 1, Len(ch))
                 IN  IF Len(c) < bufSize
                     THEN { [o EXCEPT !.sent = <<Head(evs)>> \o @]
                            : o \in SendLoop(Append(c, Head(evs)), Tail(evs)) }
                     ELSE { [o EXCEPT !.dropped = <<Head(evs)>> \o @]
                            : o \in SendLoop(c, Tail(evs)) }
                 : r \in 0..Len(ch) }

\* The end of flushLocked without s.timer = nil.
ClearBufferOnly(s) == [s EXCEPT !.buffer = <<>>]

\* s.buffer = nil; s.timer = nil at the end of flushLocked.  A timer that is
\* still pending when its handle is dropped stays armed.
ClearBuffer(s) ==
    [s EXCEPT !.buffer = <<>>, !.timer = Nil,
              !.orphans = IF s.timer = "pending" THEN @ + 1 ELSE @]

\* subscriber.flushLocked
flushLocked(s, st) ==
    IF Len(s.buffer) = 0 \/ s.closed THEN {Result(s, st)}
    ELSE IF ~s.online
    THEN IF s.ownerCached = Nil
         THEN \* s.ownerCached.ID dereferences nil
              {[Result(s, st) EXCEPT !.panic = TRUE]}
         ELSE LET events == [i \in 1..Len(s.buffer) |-> Marshal(s.buffer[i])]
              IN  { [Result(ClearBuffer(s),
                            IF ok THEN Create(st, s.ownerCached,
                                              FromStringOrNil(s.id), events)
                                  ELSE st)
                       EXCEPT !.flushed = s.buffer,
                              !.written = IF ok THEN s.buffer ELSE <<>>]
                    : ok \in BOOLEAN }
    ELSE { [Result(ClearBuffer([s EXCEPT !.ch = o.ch]), st)
              EXCEPT !.flushed = s.buffer, !.sent = o.sent,
                     !.dropped = o.dropped]
           : o \in SendLoop(s.ch, DebounceEvents(s.buffer)) }

\* subscriber.Stop
Stop(s, st) == flushLocked(StopTimer(s), st)

\* Appends the events of the rows to the buffer (the loop of setOnline).
ParseRows(rows) == [i \in 1..Len(rows) |-> Unmarshal(rows[i].event)]

\* setOnline that leaves offlineSince as it was.
setOnlineKeepingStamp(s, st) ==
    IF s.closed THEN {Result(s, st)}
    ELSE LET s1 == [s EXCEPT !.online = TRUE, !.ownerCached = Nil]
             took == TakeBySubscriber(st, FromStringOrNil(s.id), s.uid)
             s2 == [s1 EXCEPT !.buffer = @ \o ParseRows(took.res)]
         IN  { Result(s1, st),
               [Result(IF Len(s2.buffer) > 0 THEN ArmTimer(s2) ELSE s2,
                       took.store)
                  EXCEPT !.loaded = ParseRows(took.res)] }

\* subscriber.setOnline
setOnline(s, st) ==
    IF s.closed THEN {Result(s, st)}
    ELSE LET s1 == [s EXCEPT !.online = TRUE, !.ownerCached = Nil,
                             !.offlineSince = 0]
             took == TakeBySubscriber(st, FromStringOrNil(s.id), s.uid)
             s2 == [s1 EXCEPT !.buffer = @ \o ParseRows(took.res)]
         IN  { \* TakeBySubscriber failed
               Result(s1, st),
               [Result(IF Len(s2.buffer) > 0 THEN ArmTimer(s2) ELSE s2,
                       took.store)
                  EXCEPT !.loaded = ParseRows(took.res)] }

\* subscriber.setOffline at time t
setOffline(s, st, t) ==
    IF s.closed THEN {Result(s, st)}
    ELSE flushLocked(StopTimer([s EXCEPT !.online = FALSE,
                                         !.offlineSince = t]), st)

\* subscriber.close
close(s, st) ==
    IF s.closed THEN {Result(s, st)}
    ELSE LET s1 == [StopTimer(s) EXCEPT !.closed = TRUE, !.chClosed = TRUE,
                                        !.buffer = <<>>]
         IN  { Result(s1, IF ok THEN DeleteBySubscriber(st, FromStringOrNil(s.id))
                                ELSE st)
               : ok \in BOOLEAN }

\* isClosed that also takes an online subscriber for closed.
isClosedOrOnline(s) == s.closed \/ s.online

\* subscriber.isClosed
isClosed(s) == s.closed

\* shouldExpire with an inclusive limit.
shouldExpireAtLimit(s, t) ==
    ~s.online /\ s.offlineSince # 0 /\ t - s.offlineSince >= offlineMaxAge

\* subscriber.shouldExpire at time t
shouldExpire(s, t) ==
    ~s.online /\ s.offlineSince # 0 /\ t - s.offlineSince > offlineMaxAge

\* subscriber.Owner: reloads the owner when the cache is missing or older
\* than userCacheTTL (expired); the reload can fail.
Owner(s, expired, ok) ==
    IF (expired \/ s.ownerCached = Nil) /\ ok
    THEN [s EXCEPT !.ownerCached = s.uid]
    ELSE s

(***************************************************************************)
(* The cryptor (package encrypt): an AES256CTR object and the encrypted    *)
(* stream it reads.  Offsets are byte offsets in the encrypted object.     *)
(* stream is the cipher.Stream by the offset, from the keystream that      *)
(* starts at the IV, of the next keystream byte; NoStream when nil.        *)
(***************************************************************************)
\* e.stream == nil
NoStream == 0 - 1

\* NewAES256CTR
NewAES256CTR ==
    [metadata |-> Nil, src |-> Nil, seeker |-> Nil, stream |-> NoStream,
     counterOffset |-> 0, pos |-> 0, size |-> -1, eof |-> FALSE]

\* No stream has been opened.
NoSource == [base |-> 0, at |-> 0]

\* The errors of the cryptor that the claims tell apart.
EOF == "EOF"
ErrIO == "source error"
ErrStructural == "structural error"
ErrCipher == "failed to create AES cipher"

\* initCipherStream that keeps a cipher stream it already has.
initCipherStreamOnce(e, absolutePosition) ==
    IF e.metadata = "badkey"
    THEN [e |-> e, err |-> ErrCipher]
    ELSE [e |-> [e EXCEPT !.stream =
                    IF @ = NoStream THEN absolutePosition ELSE @],
          err |-> Nil]

\* initCipherStream without the advance inside the block.
initCipherStreamBlockStart(e, absolutePosition) ==
    IF e.metadata = "badkey"
    THEN [e |-> e, err |-> ErrCipher]
    ELSE [e |-> [e EXCEPT !.stream =
                    (absolutePosition \div BlockSize) * BlockSize],
          err |-> Nil]

\* AES256CTR.initCipherStream on cryptor e: [e, err].  aes.NewCipher refuses
\* a key that is not 16, 24 or 32 bytes long.
initCipherStream(e, absolutePosition) ==
    IF e.metadata = "badkey"
    THEN [e |-> e, err |-> ErrCipher]
    ELSE LET blockOffset == IF absolutePosition > 0
                            THEN absolutePosition \div BlockSize ELSE 0
             offsetInBlock == absolutePosition % BlockSize
         IN  [e |-> [e EXCEPT !.stream = blockOffset * BlockSize
                                + (IF offsetInBlock > 0 THEN offsetInBlock ELSE 0)],
              err |-> Nil]

\* cipher.Stream.XORKeyStream over n bytes
XORKeyStream(e, n) == [e EXCEPT !.stream = @ + n]

(***************************************************************************)
(* The hub (eventhub.go).                                                  *)
(***************************************************************************)
Topics == {1}
Ids == {"c1"}
\* The user of a request context: none, the anonymous user, or a login user.
CtxUsers == {Nil, "anonymous", "u1"}

ErrEventHubClosed == "event hub is closed"
ErrUserNotFound == "user not found"

\* The subscriber objects allocated so far.
Objs == 1..Len(subs)

\* The rows of the table under a subscriber id.
RowsOf(st, id) ==
    LET Match(r) == r.subscriber = FromStringOrNil(id)
    IN  SelectSeq(st, Match)

\* What an operation leaves in last: its name, the subscriber object it acted
\* on (0: none) and, of what it was given and what it returned or did, the
\* part that the states before and after it do not tell.
Op(name, k, out) == [op |-> name, sub |-> k, out |-> out]

\* The operations whose trace in last is only that something else ran.
Other == Op("other", 0, <<>>)

\* A goroutine panics: the process exits, nothing else is written.
Panic(name, k) ==
    /\ panicked' = TRUE
    /\ last' = Op(name, k, "panic")
    /\ UNCHANGED <<threads, cryptor, source, hubClosed, topics, cleanupLoop, subs, store, now>>

\* A hub that never sees itself closed.
IsHubClosedNever == FALSE

\* if e.closed { return ... }, the first check of every hub method
IsHubClosed == hubClosed

\* No goroutine is followed: the callers of the hub are anonymous.
NoThreads == <<>>

Init ==
    /\ hubClosed = FALSE
    /\ topics = EmptyMap
    /\ cleanupLoop = "select"
    /\ subs = <<>>
    /\ store = <<>>
    /\ now = 1
    /\ panicked = FALSE
    /\ last = Op("NewEventHub", 0, <<>>)
    /\ cryptor = NewAES256CTR
    /\ source = NoSource
    /\ threads = NoThreads

\* eventHub.Subscribe(ctx, topic, id), ctx carrying user: what the call does
\* to the hub, whoever calls.
SubscribeCall(topic, id, user) ==
    /\ ~panicked
    /\ IF IsHubClosed
       THEN /\ last' = Op("Subscribe", 0,
                          [key |-> <<topic, id>>, user |-> user, resumed |-> FALSE,
                           err |-> ErrEventHubClosed])
            /\ UNCHANGED <<cryptor, source, hubClosed, topics, cleanupLoop, subs, store, now, panicked>>
       ELSE LET m == IF topic \in DOMAIN topics THEN topics[topic] ELSE EmptyMap
                exists == id \in DOMAIN m
            IN  IF exists /\ ~isClosed(subs[m[id]])
                THEN \* Reactivate the offline subscriber
                     \E r \in setOnline(subs[m[id]], store) :
                         /\ subs' = [subs EXCEPT ![m[id]] = r.sub]
                         /\ store' = r.store
                         /\ topics' = topics
                         /\ last' = Op("Subscribe", m[id],
                                       [key |-> <<topic, id>>, user |-> user,
                                        resumed |-> TRUE,
                                        err |-> Nil])
                         /\ UNCHANGED <<cryptor, source, hubClosed, cleanupLoop, now, panicked>>
                ELSE LET m1 == DeleteKey(m, id)
                     IN  IF NoLoginUser(user)
                         THEN /\ topics' = (topic :> m1) @@ topics
                              /\ last' = Op("Subscribe", 0,
                                            [key |-> <<topic, id>>, user |-> user,
                                        resumed |-> FALSE,
                                             err |-> ErrUserNotFound])
                              /\ UNCHANGED <<cryptor, source, hubClosed, cleanupLoop, subs, store,
                                             now, panicked>>
                         ELSE /\ Len(subs) < MaxSubs
                              /\ subs' = Append(subs, newSubscriber(id, user))
                              /\ topics' = (topic :> ((id :> Len(subs) + 1) @@ m1))
                                           @@ topics
                              /\ last' = Op("Subscribe", Len(subs) + 1,
                                            [key |-> <<topic, id>>, user |-> user,
                                        resumed |-> FALSE,
                                             err |-> Nil])
                              /\ UNCHANGED <<cryptor, source, hubClosed, cleanupLoop, store, now,
                                             panicked>>

\* Subscribe called by a goroutine that is not followed.
Subscribe(topic, id, user) ==
    SubscribeCall(topic, id, user) /\ UNCHANGED threads

\* eventHub.Unsubscribe(ctx, topic, id): sub.Stop(), then sub.setOffline().
\* Both run under the hub lock; a Publish or a timer callback that would fall
\* between the two leaves the same states as one falling right after, since
\* setOffline flushes whatever the buffer holds.
UnsubscribeCall(topic, id) ==
    /\ ~panicked
    /\ IF IsHubClosed \/ topic \notin DOMAIN topics \/ id \notin DOMAIN topics[topic]
       THEN /\ last' = Op("Unsubscribe", 0, <<>>)
            /\ UNCHANGED <<cryptor, source, hubClosed, topics, cleanupLoop, subs, store, now, panicked>>
       ELSE LET k == topics[topic][id]
            IN  \E r1 \in Stop(subs[k], store) :
                  IF r1.panic THEN Panic("Unsubscribe", k)
                  ELSE \E r2 \in setOffline(r1.sub, r1.store, now) :
                         IF r2.panic THEN Panic("Unsubscribe", k)
                         ELSE /\ subs' = [subs EXCEPT ![k] = r2.sub]
                              /\ store' = r2.store
                              /\ last' = Op("Unsubscribe", k,
                                            r1.dropped \o r2.dropped)
                              /\ UNCHANGED <<cryptor, source, hubClosed, topics, cleanupLoop, now,
                                             panicked>>

\* Unsubscribe called by a goroutine that is not followed.
Unsubscribe(topic, id) ==
    UnsubscribeCall(topic, id) /\ UNCHANGED threads

\* The objects registered in the hub.
Registered == { topics[t][i] : <<t, i>> \in
                  UNION { {t} \X DOMAIN topics[t] : t \in DOMAIN topics } }

\* A Close that leaves every subscriber as it is.
CloseNone(ks, ss, st) == {[subs |-> ss, store |-> st]}

RECURSIVE CloseEach(_, _, _)
\* sub.close() on each object of the set ks: the possible (subs, store)
\* afterwards.  The closes of different objects commute, so one order stands
\* for every order of the map iteration.
CloseEach(ks, ss, st) ==
    IF ks = {} THEN {[subs |-> ss, store |-> st]}
    ELSE LET k == CHOOSE x \in ks : TRUE
         IN  UNION { CloseEach(ks \ {k}, [ss EXCEPT ![k] = r.sub], r.store)
                     : r \in close(ss[k], st) }

\* Whether the table st1 is what a successful DeleteBySubscriber for each
\* object of ks leaves of st.
Deleted(ks, ss, st, st1) ==
    LET Rest(r) == \A k \in ks : r.subscriber # FromStringOrNil(ss[k].id)
    IN  st1 = SelectSeq(st, Rest)

\* eventHub.cleanupExpiredSubscribers, run by cleanupLoop when its ticker
\* fires.
cleanupExpiredSubscribers ==
    /\ ~panicked
    /\ cleanupLoop = "select"
    /\ IF IsHubClosed
       THEN /\ last' = Op("cleanup", 0, [deleted |-> TRUE])
            /\ UNCHANGED <<threads, cryptor, source, hubClosed, topics, cleanupLoop, subs, store, now, panicked>>
       ELSE LET expired == { k \in Registered : shouldExpire(subs[k], now) }
                kept(t) == { i \in DOMAIN topics[t] : topics[t][i] \notin expired }
            IN  \E r \in CloseEach(expired, subs, store) :
                  /\ subs' = r.subs
                  /\ store' = r.store
                  /\ topics' = [t \in { x \in DOMAIN topics : kept(x) # {} } |->
                                  [i \in kept(t) |-> topics[t][i]]]
                  /\ last' = Op("cleanup", 0,
                                [deleted |-> Deleted(expired, subs, store, r.store)])
                  /\ UNCHANGED <<threads, cryptor, source, hubClosed, cleanupLoop, now, panicked>>

\* cleanupLoop receives from closeCh and returns.
cleanupLoopExit ==
    /\ ~panicked
    /\ cleanupLoop = "select"
    /\ hubClosed
    /\ cleanupLoop' = "done"
    /\ last' = Other
    /\ UNCHANGED <<threads, cryptor, source, hubClosed, topics, subs, store, now, panicked>>

\* eventHub.Close (its critical section; the wg.Wait that follows changes
\* nothing and returns once cleanupLoop is "done").
Close ==
    /\ ~panicked
    /\ IF IsHubClosed
       THEN /\ last' = Op("Close", 0, [deleted |-> TRUE])
            /\ UNCHANGED <<threads, cryptor, source, hubClosed, topics, cleanupLoop, subs, store, now, panicked>>
       ELSE \E r \in CloseEach(Registered, subs, store) :
              /\ hubClosed' = TRUE
              /\ subs' = r.subs
              /\ store' = r.store
              /\ topics' = EmptyMap
              /\ last' = Op("Close", 0,
                            [deleted |-> Deleted(Registered, subs, store, r.store)])
              /\ UNCHANGED <<threads, cryptor, source, cleanupLoop, now, panicked>>

\* eventHub.GetSubscribers(ctx, topic): the subscribers registered on the
\* topic, closed hub or not.  The method returns a slice and nothing else;
\* err records that no error comes with it.
GetSubscribers(topic) ==
    /\ ~panicked
    /\ last' = Op("GetSubscribers", 0,
                  [topic |-> topic,
                   subs |-> IF topic \in DOMAIN topics
                            THEN { topics[topic][i] : i \in DOMAIN topics[topic] }
                            ELSE {},
                   err |-> Nil])
    /\ UNCHANGED <<threads, cryptor, source, hubClosed, topics, cleanupLoop, subs, store, now, panicked>>

\* Subscriber.Publish(evt) on a handle a publisher got from GetSubscribers.
PublishEvent(k, evt) ==
    /\ ~panicked
    /\ k \in Objs
    /\ Len(subs[k].buffer) + Len(RowsOf(store, subs[k].id)) < MaxEvents
    /\ subs' = [subs EXCEPT ![k] = Publish(subs[k], evt)]
    /\ last' = Op("Publish", k, <<>>)
    /\ UNCHANGED <<threads, cryptor, source, hubClosed, topics, cleanupLoop, store, now, panicked>>

\* A pending debounce timer of subscriber k fires: the runtime starts
\* s.flush in its own goroutine, which then waits for the mutex.
TimerFire(k) ==
    /\ ~panicked
    /\ k \in Objs
    /\ \/ /\ subs[k].timer = "pending"
          /\ subs[k].fired + subs[k].orphans < MaxStray
          /\ subs' = [subs EXCEPT ![k].timer = "expired", ![k].fired = @ + 1]
       \/ /\ subs[k].orphans > 0
          /\ subs' = [subs EXCEPT ![k].orphans = @ - 1, ![k].fired = @ + 1]
    /\ last' = Other
    /\ UNCHANGED <<threads, cryptor, source, hubClosed, topics, cleanupLoop, store, now, panicked>>

\* subscriber.flush, the timer callback, gets the mutex.
flush(k) ==
    /\ ~panicked
    /\ k \in Objs
    /\ subs[k].fired > 0
    /\ \E r \in flushLocked([subs[k] EXCEPT !.fired = @ - 1], store) :
         IF r.panic THEN Panic("flush", k)
         ELSE /\ subs' = [subs EXCEPT ![k] = r.sub]
              /\ store' = r.store
              /\ last' = Op("flush", k, r.dropped)
              /\ UNCHANGED <<threads, cryptor, source, hubClosed, topics, cleanupLoop, now, panicked>>

\* The consumer of the channel receives one event.
Receive(k) ==
    /\ ~panicked
    /\ k \in Objs
    /\ subs[k].ch # <<>>
    /\ subs' = [subs EXCEPT ![k].ch = Tail(@)]
    /\ last' = Other
    /\ UNCHANGED <<threads, cryptor, source, hubClosed, topics, cleanupLoop, store, now, panicked>>

\* Subscriber.Owner(), whatever the age of the cache and the answer of the
\* user repository
OwnerCall(k) ==
    /\ ~panicked
    /\ k \in Objs
    /\ \E s \in { Owner(subs[k], expired, ok) : expired, ok \in BOOLEAN } :
         subs' = [subs EXCEPT ![k] = s]
    /\ last' = Other
    /\ UNCHANGED <<threads, cryptor, source, hubClosed, topics, cleanupLoop, store, now, panicked>>

\* Time passes.
Tick ==
    /\ ~panicked
    /\ now < MaxNow
    /\ now' = now + 1
    /\ last' = Other
    /\ UNCHANGED <<threads, cryptor, source, hubClosed, topics, cleanupLoop, subs, store, panicked>>

\* Every operation of the hub, of its subscribers and of their consumers, the
\* publishers drawing their events from the set E.
NextOver(E) ==
    \/ \E t \in Topics, i \in Ids, u \in CtxUsers : Subscribe(t, i, u)
    \/ \E t \in Topics, i \in Ids : Unsubscribe(t, i)
    \/ \E k \in 1..MaxSubs, e \in E : PublishEvent(k, e)
    \/ \E k \in 1..MaxSubs : TimerFire(k)
    \/ \E k \in 1..MaxSubs : flush(k)
    \/ \E k \in 1..MaxSubs : Receive(k)
    \/ \E k \in 1..MaxSubs : OwnerCall(k)
    \/ cleanupExpiredSubscribers
    \/ cleanupLoopExit
    \/ Close

\* The life cycle of subscribers: the clock runs, the publishers emit one
\* kind of event.
Next == NextOver({Event(EventTypeModify, "f2", "/b", "")}) \/ Tick

Spec == Init /\ [][Next]_vars

\* The delivery of events: the publishers emit HubEvents, the clock stands.
NextDelivery == NextOver(HubEvents)

SpecDelivery == Init /\ [][NextDelivery]_vars

(***************************************************************************)
(* DebounceEvents alone: a caller collects a sequence of events, in last,  *)
(* and calls DebounceEvents on it; the hub stays as NewEventHub left it.   *)
(***************************************************************************)
Files == {"f1", "f2"}

\* The events the caller draws from: on f1 every type, with the paths that
\* make a Rename chain, a Rename round trip and a Delete at another path; on
\* f2 one event of every type.
AlgebraEvents ==
    { Event(EventTypeCreate, "f1", "/a", ""),
      Event(EventTypeModify, "f1", "/a", ""),
      Event(EventTypeDelete, "f1", "/b", ""),
      Event(EventTypeRename, "f1", "/a", "/b"),
      Event(EventTypeRename, "f1", "/b", "/a"),
      Event(EventTypeRename, "f1", "/b", "/c"),
      Event(EventTypeCreate, "f2", "/a", ""),
      Event(EventTypeModify, "f2", "/a", ""),
      Event(EventTypeDelete, "f2", "/a", ""),
      Event(EventTypeRename, "f2", "/a", "/b") }

InitDebounce ==
    /\ hubClosed = FALSE
    /\ topics = EmptyMap
    /\ cleanupLoop = "select"
    /\ subs = <<>>
    /\ store = <<>>
    /\ now = 1
    /\ panicked = FALSE
    /\ last = Op("in", 0, <<>>)
    /\ cryptor = NewAES256CTR
    /\ source = NoSource
    /\ threads = NoThreads

\* The caller appends an event to the sequence it will pass.
Collect(e) ==
    /\ last.op = "in"
    /\ Len(last.out) < MaxLen
    /\ last' = Op("in", 0, Append(last.out, e))
    /\ UNCHANGED <<threads, cryptor, source, hubClosed, topics, cleanupLoop, subs, store, now, panicked>>

\* The call DebounceEvents(in) and what it returns.
Debounce ==
    /\ last.op = "in"
    /\ last' = Op("DebounceEvents", 0,
                  [in |-> last.out, out |-> DebounceEvents(last.out)])
    /\ UNCHANGED <<threads, cryptor, source, hubClosed, topics, cleanupLoop, subs, store, now, panicked>>

NextDebounce ==
    \/ \E e \in AlgebraEvents : Collect(e)
    \/ Debounce

SpecDebounce == InitDebounce /\ [][NextDebounce]_vars

(***************************************************************************)
(* The cryptor alone: a caller loads metadata, binds sources, reads and    *)
(* seeks, one call at a time (cryptors are not shared between goroutines); *)
(* the hub stays as NewEventHub left it.                                   *)
(***************************************************************************)
hubVars == <<hubClosed, topics, cleanupLoop, subs, store, now, threads>>

\* The metadata a caller passes to LoadMetadata: none, another algorithm, a
\* plaintext key of 32 bytes or of another length, a wrapped key.
Metadatas == {Nil, "rc4", "plain32", "plainbad", "wrapped"}

\* The counter offsets a caller passes to SetSource.
CounterOffsets == {0, BlockSize + 1}

\* The buffer lengths a caller passes to Read.
ReadSizes == {1, BlockSize}

\* The arguments a caller passes to Seek.
SeekOffsets == {-1, 0, 1, BlockSize}
Whences == {0, 1, 2, 3}

\* AES256CTR.LoadMetadata; unwraps tells whether DecriptKey succeeds.
LoadMetadata(md, unwraps) ==
    /\ ~panicked
    /\ LET err == \/ md \in {Nil, "rc4"}
                  \/ md = "wrapped" /\ ~unwraps
       IN  /\ cryptor' = IF err THEN cryptor
                         ELSE [cryptor EXCEPT !.metadata =
                                 IF md = "plainbad" THEN "badkey" ELSE "key32"]
           /\ last' = Op("LoadMetadata", 0,
                         [err |-> IF err THEN ErrStructural ELSE Nil,
                          md |-> md])
    /\ UNCHANGED <<source, panicked>>
    /\ UNCHANGED hubVars

\* AES256CTR.SetSource(src, seeker, size, counterOffset) with a stream whose
\* next byte is byte counterOffset of the object: a slice that begins there
\* (sliced) or the whole object positioned there; seekable tells whether a
\* seeker comes with it.
SetSource(seekable, sliced, size, counterOffset) ==
    /\ ~panicked
    /\ IF cryptor.metadata = Nil
       THEN /\ last' = Op("SetSource", 0, [err |-> ErrStructural])
            /\ UNCHANGED <<cryptor, source>>
       ELSE LET e1 == [cryptor EXCEPT !.src = "src",
                                      !.seeker = IF seekable THEN "seeker" ELSE Nil,
                                      !.counterOffset = counterOffset,
                                      !.pos = 0, !.eof = FALSE, !.size = size]
                r == initCipherStream(e1, counterOffset)
            IN  /\ cryptor' = r.e
                /\ source' = [base |-> IF sliced THEN counterOffset ELSE 0,
                              at |-> counterOffset]
                /\ last' = Op("SetSource", 0, [err |-> r.err])
    /\ UNCHANGED panicked
    /\ UNCHANGED hubVars

\* What e.src.Read(p) can return for a buffer of lenp bytes: n bytes and an
\* error, by the contract of io.Reader.
SourceReads(lenp) ==
    LET left == IF source.at < ObjLen THEN ObjLen - source.at ELSE 0
        most == IF lenp < left THEN lenp ELSE left
    IN  { [n |-> n, err |-> Nil] : n \in { x \in {1, most} : x <= most } }
        \cup { [n |-> n, err |-> ErrIO] : n \in {0, most} }
        \cup { [n |-> left, err |-> EOF] : x \in { y \in {1} : left <= lenp } }

\* AES256CTR.Read(p) with len(p) = lenp.  The caller stops reading once the
\* keystream is past the end of the object.
Read(lenp) ==
    /\ ~panicked
    /\ cryptor.stream <= ObjLen
    /\ IF cryptor.src = Nil
       THEN /\ last' = Op("Read", 0, [n |-> 0, err |-> ErrStructural])
            /\ UNCHANGED <<threads, cryptor, source, panicked>>
       ELSE IF cryptor.eof
       THEN /\ last' = Op("Read", 0, [n |-> 0, err |-> EOF])
            /\ UNCHANGED <<threads, cryptor, source, panicked>>
       ELSE \E r \in SourceReads(lenp) :
              LET e1 == IF r.err = EOF THEN [cryptor EXCEPT !.eof = TRUE]
                        ELSE cryptor
              IN  /\ source' = [source EXCEPT !.at = @ + r.n]
                  /\ IF r.err = EOF /\ r.n = 0
                     THEN /\ cryptor' = e1
                          /\ last' = Op("Read", 0, r)
                          /\ UNCHANGED panicked
                     ELSE IF r.err \notin {Nil, EOF}
                     THEN /\ cryptor' = e1
                          /\ last' = Op("Read", 0, r)
                          /\ UNCHANGED panicked
                     ELSE IF r.n > 0 /\ e1.stream = NoStream
                     THEN \* e.stream.XORKeyStream on a nil stream
                          /\ panicked' = TRUE
                          /\ cryptor' = e1
                          /\ last' = Op("Read", 0, "panic")
                     ELSE /\ cryptor' = IF r.n > 0
                                        THEN [XORKeyStream(e1, r.n)
                                                EXCEPT !.pos = @ + r.n]
                                        ELSE e1
                          /\ last' = Op("Read", 0, r)
                          /\ UNCHANGED panicked
    /\ UNCHANGED hubVars

\* The position a Seek asks for: the switch on whence.
seekPosition(e, offset, whence) ==
    CASE whence = 0 -> offset
      [] whence = 1 -> e.pos + offset
      [] OTHER -> e.size + offset

\* The checks of Seek without the one of whence.
seekRefusedAnyWhence(e, offset, whence) ==
    \/ e.metadata = Nil
    \/ e.src = Nil
    \/ e.seeker = Nil
    \/ whence = 2 /\ e.size < 0
    \/ seekPosition(e, offset, whence) < 0

\* The checks that Seek makes before it touches the source: metadata, source
\* and seeker set, a known size for SeekEnd, a valid whence, a position that
\* is not negative.
seekRefused(e, offset, whence) ==
    \/ e.metadata = Nil
    \/ e.src = Nil
    \/ e.seeker = Nil
    \/ whence = 2 /\ e.size < 0
    \/ whence \notin {0, 1, 2}
    \/ seekPosition(e, offset, whence) < 0

\* AES256CTR.Seek(offset, whence); seeks tells whether the seek of the
\* source succeeds.  The call is recorded with its arguments and, when it
\* succeeds, with the eof it found.  The caller stays within one byte of
\* the object's end.
Seek(offset, whence, seeks) ==
    /\ ~panicked
    /\ LET newPos == seekPosition(cryptor, offset, whence)
           absPos == cryptor.counterOffset + newPos
           call == [offset |-> offset, whence |-> whence]
           Returns(pos, err) ==
               Op("Seek", 0, [pos |-> pos, err |-> err, call |-> call,
                              eofBefore |-> err = Nil /\ cryptor.eof])
       IN  IF seekRefused(cryptor, offset, whence)
           THEN /\ last' = Returns(0, ErrStructural)
                /\ UNCHANGED <<cryptor, source>>
           ELSE /\ absPos <= ObjLen + 1
                /\ IF ~seeks
                   THEN /\ last' = Returns(0, ErrIO)
                        /\ UNCHANGED <<cryptor, source>>
                   ELSE LET r == initCipherStream(cryptor, absPos)
                        IN  /\ source' = [source EXCEPT !.at = source.base + absPos]
                            /\ IF r.err # Nil
                               THEN /\ cryptor' = cryptor
                                    /\ last' = Returns(0, r.err)
                               ELSE /\ cryptor' = [r.e EXCEPT !.pos = newPos,
                                                              !.eof = FALSE]
                                    /\ last' = Returns(newPos, Nil)
    /\ UNCHANGED panicked
    /\ UNCHANGED hubVars

NextCryptor ==
    \/ \E md \in Metadatas, unwraps \in BOOLEAN : LoadMetadata(md, unwraps)
    \/ \E seekable, sliced \in BOOLEAN, c \in CounterOffsets,
          size \in {-1, ObjLen} :
          SetSource(seekable, sliced, IF size < 0 THEN size ELSE size - c, c)
    \/ \E lenp \in ReadSizes : Read(lenp)
    \/ \E offset \in SeekOffsets, whence \in Whences, seeks \in BOOLEAN :
          Seek(offset, whence, seeks)

SpecCryptor == Init /\ [][NextCryptor]_vars

(***************************************************************************)
(* Vocabulary of the claims.                                               *)
(***************************************************************************)
Range(q) == { q[i] : i \in 1..Len(q) }

\* a is what is left of b after taking some events from its head
IsSuffix(a, b) == \E n \in 0..Len(b) : a = SubSeq(b, n + 1, Len(b))

\* q without the events of d
Without(q, d) == LET Keep(e) == e \notin Range(d) IN SelectSeq(q, Keep)

\* The step just taken was operation name on subscriber object k.
Did(name, k) == last'.op = name /\ last'.sub = k

\* The rows that a resume of subscriber s takes from the table, as events.
StoredFor(s) ==
    ParseRows(TakeBySubscriber(store, FromStringOrNil(s.id), s.uid).res)

\* The step just taken was a Subscribe that reactivated the offline
\* subscriber k and took its rows from the table.
Resumed(k) ==
    /\ Did("Subscribe", k)
    /\ last'.out.resumed
    /\ ~subs[k].online
    /\ store' = TakeBySubscriber(store, FromStringOrNil(subs[k].id), subs[k].uid).store

\* The step just taken emptied the buffer of k and did not close k.
Flushed(k) ==
    /\ k \in Objs
    /\ subs[k].buffer # <<>>
    /\ subs'[k].buffer = <<>>
    /\ ~subs'[k].closed

\* (topic, id) is registered, with a subscriber that is not closed.
Live(topic, id) ==
    /\ topic \in DOMAIN topics
    /\ id \in DOMAIN topics[topic]
    /\ ~subs[topics[topic][id]].closed

C2_ResumeDeliversInPublishOrder ==
    [][\A k \in 1..MaxSubs : (k \in Objs /\ Resumed(k)) =>
         DebounceEvents(subs'[k].buffer)
           = DebounceEvents(StoredFor(subs[k]) \o subs[k].buffer)]_vars

(***************************************************************************)
(* C3.  When a Subscribe resumes an offline subscriber, the events taken   *)
(* from the durable store stand in the buffer ahead of the events that     *)
(* were in the buffer at that time, which were published later.            *)
(***************************************************************************)
C3_PersistedEventsFirst ==
    [][\A k \in 1..MaxSubs : (k \in Objs /\ Resumed(k)) =>
         subs'[k].buffer = StoredFor(subs[k]) \o subs[k].buffer]_vars

(***************************************************************************)
(* C4.  After Unsubscribe(topic, id) on a registered subscriber has        *)
(* returned, no event of its buffer has been discarded, and the subscriber *)
(* is still registered, open and offline.  (An Unsubscribe that panics     *)
(* does not return and leaves the word "panic" as its outcome.)            *)
(***************************************************************************)
C4_UnsubscribeDiscardsNothing ==
    (last.op = "Unsubscribe" /\ last.sub # 0 /\ ~panicked) =>
        /\ last.out = <<>>
        /\ last.sub \in Registered
        /\ ~subs[last.sub].online
        /\ ~subs[last.sub].closed

\* The step just taken was a call of Subscribe.
Subscribed == last'.op = "Subscribe"

\* Every object that is not closed is registered, under its own id and
\* under one key only.
OneLivePerKey ==
    \A k \in Objs : ~subs[k].closed =>
        \E t \in DOMAIN topics :
            /\ subs[k].id \in DOMAIN topics[t]
            /\ topics[t][subs[k].id] = k
            /\ \A t2 \in DOMAIN topics : \A i2 \in DOMAIN topics[t2] :
                   topics[t2][i2] = k => (t2 = t /\ i2 = subs[k].id)

C6_ClosedIsReleased ==
    [][\A k \in 1..MaxSubs : (k \in 1..Len(subs') /\ subs'[k].closed) =>
         /\ subs'[k].chClosed
         /\ subs'[k].buffer = <<>>
         /\ subs'[k].timer = Nil
         /\ subs'[k].orphans = 0
         /\ (k \in Objs /\ ~subs[k].closed /\ last'.out.deleted) =>
               RowsOf(store', subs[k].id) = <<>>
         /\ (k \in Objs /\ subs[k].closed /\ RowsOf(store, subs[k].id) = <<>>) =>
               RowsOf(store', subs[k].id) = <<>>]_vars

(***************************************************************************)
(* C7.  Once a subscriber is closed it stays closed, its channel stays     *)
(* closed and receives no further event (the consumer can only drain it),  *)
(* its buffer stays empty and no new timer is armed.  Publish on it and a  *)
(* timer callback that was already in flight when it closed change neither *)
(* the channel nor the store.                                              *)
(***************************************************************************)
C7_ClosedIsInert ==
    [][\A k \in 1..MaxSubs : (k \in Objs /\ subs[k].closed) =>
         /\ subs'[k].closed
         /\ subs'[k].chClosed
         /\ subs'[k].buffer = <<>>
         /\ subs'[k].timer = Nil
         /\ subs'[k].orphans <= subs[k].orphans
         /\ IsSuffix(subs'[k].ch, subs[k].ch)
         /\ last'.sub = k =>
               /\ last'.op \in {"Publish", "flush"}
               /\ last'.out = <<>>
               /\ subs'[k].ch = subs[k].ch
               /\ store' = store
               /\ topics' = topics]_vars

\* A timer callback that had fired before the subscriber was closed has just
\* run on the closed subscriber, whose channel still holds an event.
C7_Witness ==
    /\ last.op = "flush"
    /\ last.sub # 0
    /\ subs[last.sub].closed
    /\ subs[last.sub].ch # <<>>

(***************************************************************************)
(* C8.  A sweep of an open hub closes and unregisters exactly the          *)
(* registered subscribers that are offline, have a recorded offline time   *)
(* and have been offline for more than offlineMaxAge; every other          *)
(* registered subscriber, among them one that resumed before the sweep or  *)
(* one whose offline time equals offlineMaxAge, stays registered and       *)
(* unchanged.                                                              *)
(***************************************************************************)
C8_SweepExpiresOnlyOld ==
    [][(last'.op = "cleanup" /\ ~hubClosed) =>
         \A t \in DOMAIN topics : \A i \in DOMAIN topics[t] :
            LET k == topics[t][i]
                s == subs[k]
            IN  IF ~s.online /\ s.offlineSince # 0
                     /\ now - s.offlineSince > offlineMaxAge
                THEN /\ subs'[k].closed
                     /\ ~(t \in DOMAIN topics' /\ i \in DOMAIN topics'[t])
                ELSE /\ t \in DOMAIN topics'
                     /\ i \in DOMAIN topics'[t]
                     /\ topics'[t][i] = k
                     /\ subs'[k] = s]_vars

\* A sweep has just expired a subscriber that had been offline for one tick
\* more than offlineMaxAge.
C8_Witness ==
    /\ last.op = "cleanup"
    /\ ~hubClosed
    /\ Len(subs) = 1
    /\ subs[1].closed
    /\ topics = EmptyMap
    /\ now - subs[1].offlineSince = offlineMaxAge + 1

(***************************************************************************)
(* C9.  Once the hub is closed, Subscribe returns ErrEventHubClosed and no *)
(* subscriber, and Subscribe, Unsubscribe and the sweeper change neither   *)
(* the registrations, nor any subscriber, nor the store.                   *)
(***************************************************************************)
C9_ClosedHubDoesNothing ==
    [][(hubClosed /\ last'.op \in {"Subscribe", "Unsubscribe", "cleanup"}) =>
         /\ hubClosed'
         /\ topics' = topics
         /\ subs' = subs
         /\ store' = store
         /\ last'.sub = 0
         /\ last'.op = "Subscribe" =>
               /\ last'.out.err = ErrEventHubClosed
               /\ ~last'.out.resumed]_vars

\* Subscribe by a login user has just been refused by a closed hub that had
\* closed a subscriber.
C9_Witness ==
    /\ hubClosed
    /\ last.op = "Subscribe"
    /\ last.out.user = "u1"
    /\ last.out.err = ErrEventHubClosed
    /\ Len(subs) > 0

(***************************************************************************)
(* C10.  A Subscribe whose context carries no user or the anonymous user   *)
(* returns an error, and neither creates nor reactivates a subscriber.     *)
(***************************************************************************)
C10_NoUserNoSubscriber ==
    (last.op = "Subscribe" /\ NoLoginUser(last.out.user)) =>
        /\ last.out.err # Nil
        /\ ~last.out.resumed
        /\ last.sub = 0

(***************************************************************************)
(* C11.  Every subscriber that is online has a zero offlineSince and every *)
(* subscriber that is offline a non-zero one; a subscriber that is offline *)
(* stays offline until a Subscribe resumes it.                             *)
(***************************************************************************)
C11_OnlineHasNoOfflineTime ==
    [][\A k \in 1..MaxSubs : k \in 1..Len(subs') =>
         /\ subs'[k].online => subs'[k].offlineSince = 0
         /\ ~subs'[k].online => subs'[k].offlineSince # 0
         /\ (k \in Objs /\ ~subs[k].online /\ subs'[k].online) =>
               (Did("Subscribe", k) /\ last'.out.resumed)]_vars

\* A subscriber set offline at an earlier tick has just been resumed.
C11_Witness ==
    /\ last.op = "Subscribe"
    /\ last.out.resumed
    /\ subs[last.sub].online
    /\ subs[last.sub].offlineSince = 0
    /\ now > 1
    /\ hubClosed = FALSE
    /\ Len(subs) = 1
    /\ subs[1].ownerCached = Nil

\* The step just taken was a hub method that, between e.mu.Lock() and
\* e.mu.Unlock(), called a subscriber method that called the durable store:
\* setOnline calls TakeBySubscriber, the flush of an offline subscriber
\* calls Create, close calls DeleteBySubscriber.
HubLockedStoreCall ==
    \/ Subscribed /\ last'.out.resumed
    \/ /\ last'.op = "Unsubscribe"
       /\ last'.sub \in Objs
       /\ ~subs[last'.sub].online
       /\ subs[last'.sub].buffer # <<>>
       /\ last'.out # "panic"
    \/ /\ last'.op = "cleanup"
       /\ ~hubClosed
       /\ \E k \in Registered : shouldExpire(subs[k], now)
    \/ /\ last'.op = "Close"
       /\ ~hubClosed
       /\ Registered # {}

(***************************************************************************)
(* C12.  No hub method (Subscribe, Unsubscribe, the sweep, Close) has a    *)
(* call of the durable store in progress while it holds the hub's          *)
(* exclusive lock.                                                         *)
(***************************************************************************)
C12_NoStoreCallUnderHubLock == [][~HubLockedStoreCall]_vars

(***************************************************************************)
(* C13.  A timer callback that gets the mutex when the handle s.timer no   *)
(* longer refers to its timer (the timer was cancelled or replaced after   *)
(* it fired) does nothing: buffer, timer handle, channel and store stay as *)
(* they were.                                                              *)
(***************************************************************************)
C13_StaleCallbackIsNoop ==
    [][\A k \in 1..MaxSubs :
         (k \in Objs /\ Did("flush", k) /\ subs[k].timer # "expired") =>
             /\ subs'[k].buffer = subs[k].buffer
             /\ subs'[k].timer = subs[k].timer
             /\ subs'[k].ch = subs[k].ch
             /\ store' = store]_vars

(***************************************************************************)
(* Vocabulary of the claims about DebounceEvents.                          *)
(***************************************************************************)
\* DebounceEvents has just returned.
Debounced == last.op = "DebounceEvents"

\* The events of q on file f, in order.
OnFile(q, f) == LET Same(e) == e.file_id = f IN SelectSeq(q, Same)

\* The events of q on other files than f, in order.
OffFile(q, f) == LET Differs(e) == e.file_id # f IN SelectSeq(q, Differs)

\* The index in q of the first event on file f.
FirstOn(q, f) == CHOOSE i \in 1..Len(q) :
                     q[i].file_id = f /\ \A j \in 1..(i-1) : q[j].file_id # f

(***************************************************************************)
(* C14.  DebounceEvents(DebounceEvents(xs)) = DebounceEvents(xs), as       *)
(* sequences of events compared field by field.                            *)
(***************************************************************************)
C14_DebounceIdempotent ==
    Debounced => DebounceEvents(last.out.out) = last.out.out

\* DebounceEvents has returned, for an input of full length, an output that
\* merges events, chains two Renames and is not the input.
C14_Witness ==
    /\ Debounced
    /\ Len(last.out.in) = MaxLen
    /\ Len(last.out.out) = 2
    /\ last.out.out[1] = Event(EventTypeRename, "f1", "/a", "/c")
    /\ last.out.out[2].type = EventTypeDelete

(***************************************************************************)
(* C15.  When the first event of the input on a file is a Create and the   *)
(* last one a Delete, DebounceEvents returns no event on that file.        *)
(***************************************************************************)
C15_CreateThenDeleteEmitsNothing ==
    Debounced =>
        \A f \in Files :
            LET p == OnFile(last.out.in, f)
            IN  (/\ p # <<>>
                 /\ p[1].type = EventTypeCreate
                 /\ p[Len(p)].type = EventTypeDelete)
                => OnFile(last.out.out, f) = <<>>

(***************************************************************************)
(* C16.  Of two files with an event in the output, the one whose first     *)
(* event in the input came earlier stands earlier in the output.           *)
(***************************************************************************)
C16_OutputInFirstAppearanceOrder ==
    Debounced =>
        \A i, j \in 1..Len(last.out.out) :
            i < j => FirstOn(last.out.in, last.out.out[i].file_id)
                       < FirstOn(last.out.in, last.out.out[j].file_id)

\* The accumulator of the transition table when a file has no entry.
NoEntry == [base |-> "none", src |-> "", dst |-> ""]

\* One row of the transition table: the accumulator of a file after event e.
\* A Create met by a Create, Modify or Rename entry has no row and changes
\* nothing.
TableStep(acc, e) ==
    CASE acc.base = "none" ->
           [base |-> e.type, src |-> e.from, dst |-> e.to]
      [] acc.base = EventTypeDelete /\ e.type = EventTypeCreate ->
           [base |-> EventTypeCreate, src |-> e.from, dst |-> ""]
      [] acc.base # "none" /\ e.type = EventTypeModify -> acc
      [] acc.base = EventTypeCreate /\ e.type = EventTypeRename ->
           [acc EXCEPT !.src = e.to]
      [] acc.base = EventTypeModify /\ e.type = EventTypeRename ->
           [base |-> EventTypeRename, src |-> e.from, dst |-> e.to]
      [] acc.base = EventTypeRename /\ e.type = EventTypeRename ->
           IF e.to = acc.src THEN NoEntry ELSE [acc EXCEPT !.dst = e.to]
      [] acc.base = EventTypeDelete /\ e.type = EventTypeRename -> acc
      [] acc.base = EventTypeCreate /\ e.type = EventTypeDelete -> NoEntry
      [] acc.base \in {EventTypeModify, EventTypeRename}
           /\ e.type = EventTypeDelete ->
           [acc EXCEPT !.base = EventTypeDelete, !.src = e.from]
      [] acc.base = EventTypeDelete /\ e.type = EventTypeDelete -> acc
      [] OTHER -> acc

RECURSIVE TableFold(_, _)
TableFold(acc, q) ==
    IF q = <<>> THEN acc ELSE TableFold(TableStep(acc, Head(q)), Tail(q))

C19_RoundTripErased ==
    Debounced =>
        \A f \in Files :
            LET p == OnFile(last.out.in, f)
            IN  (/\ Len(p) = 2
                 /\ p[1].type = EventTypeRename
                 /\ p[2].type = EventTypeRename
                 /\ p[2].from = p[1].to
                 /\ p[2].to = p[1].from)
                => /\ OnFile(last.out.out, f) = <<>>
                   /\ last.out.out = DebounceEvents(OffFile(last.out.in, f))

\* DebounceEvents has returned for a Rename round trip on f1 with two events
\* on f2 in between.
C19_Witness ==
    /\ Debounced
    /\ Len(last.out.in) = 4
    /\ last.out.in[1] = Event(EventTypeRename, "f1", "/a", "/b")
    /\ last.out.in[2].file_id = "f2"
    /\ last.out.in[3].file_id = "f2"
    /\ last.out.in[4] = Event(EventTypeRename, "f1", "/b", "/a")
    /\ last.out.out # <<>>

(***************************************************************************)
(* C20.  Whenever a source is bound to the cryptor, the next keystream     *)
(* byte of the cipher stream is the one for the byte of the object that    *)
(* the source delivers next, and the offset of that byte is counterOffset  *)
(* + pos; this holds after every SetSource, Read and Seek, whether the     *)
(* call succeeded or failed.                                               *)
(***************************************************************************)
C20_KeystreamAlignedWithSource ==
    cryptor.src # Nil =>
        /\ cryptor.stream = source.at
        /\ source.at = cryptor.counterOffset + cryptor.pos

(***************************************************************************)
(* Vocabulary of the cryptor claims.  A byte that Read returns is          *)
(* plaintext exactly when the keystream byte applied to it is the one of   *)
(* its offset in the object, because CTR mode encrypts byte i of the       *)
(* object with keystream byte i.                                           *)
(***************************************************************************)
\* The keystream is at the byte the source delivers next, the byte of the
\* object at the cryptor's absolute offset counterOffset + pos.
Aligned ==
    /\ cryptor.stream = source.at
    /\ source.at = cryptor.counterOffset + cryptor.pos

\* The last call succeeded and positioned the cryptor: SetSource on a slice
\* that begins at counterOffset, or Seek on a source that begins at byte 0,
\* where the position sought is the absolute offset.
Positioned ==
    \/ /\ last.op = "SetSource"
       /\ last.out.err = Nil
       /\ source.base = cryptor.counterOffset
    \/ /\ last.op = "Seek"
       /\ last.out.err = Nil
       /\ cryptor.counterOffset = 0

\* The step is a Read that returns bytes through the cipher.
ReadsBytes ==
    /\ last'.op = "Read"
    /\ ~panicked'
    /\ last'.out.n > 0
    /\ last'.out.err \in {Nil, EOF}

(***************************************************************************)
(* C21.  After a successful SetSource with counter offset s on a slice     *)
(* that begins at s, and after a successful Seek to s on a seekable source *)
(* that begins at byte 0, the keystream is at byte s and so is the source, *)
(* for block-aligned and other s alike; every Read that returns bytes from *)
(* there applies to each byte the keystream byte of its offset and leaves  *)
(* the keystream at the next byte, so that n bytes read are P[s:s+n], as   *)
(* when reading from offset 0 and discarding s bytes.                      *)
(***************************************************************************)
C21_PositionedReadIsPlaintext ==
    [][/\ Positioned' => Aligned'
       /\ Aligned /\ ReadsBytes => Aligned']_vars

\* A sliced source that begins at an offset inside a block has been read
\* from its start across a block boundary.
C21_Witness ==
    /\ last.op = "Read"
    /\ ~panicked
    /\ cryptor.seeker = Nil
    /\ cryptor.counterOffset = BlockSize + 1
    /\ source.base = cryptor.counterOffset
    /\ last.out.n = BlockSize
    /\ cryptor.pos = last.out.n
    /\ Aligned

(***************************************************************************)
(* C22.  After a successful Seek the cursor is where a fresh cursor on the *)
(* same source sought to the same position would be: pos is the position   *)
(* returned, the keystream is at counterOffset + pos, the source is at     *)
(* that offset of its own stream and eof is clear, whatever was read or    *)
(* sought before, whatever the whence, and whether or not EOF had been     *)
(* reached.  What the next Read returns depends on nothing else.           *)
(***************************************************************************)
C22_SeekDependsOnTargetOnly ==
    last.op = "Seek" /\ last.out.err = Nil =>
        /\ cryptor.pos = last.out.pos
        /\ cryptor.stream = cryptor.counterOffset + last.out.pos
        /\ source.at = source.base + cryptor.counterOffset + last.out.pos
        /\ ~cryptor.eof

\* A Seek backwards, relative to the current position, after the source had
\* been read to EOF.
C22_Witness ==
    /\ last.op = "Seek"
    /\ last.out.err = Nil
    /\ last.out.call.whence = 1
    /\ last.out.call.offset < 0
    /\ last.out.eofBefore
    /\ cryptor.pos > 0

(***************************************************************************)
(* incrementCounter alone: the counter of initCipherStream is a sequence   *)
(* of CounterLen bytes, byte 1 the most significant (index 0 of the Go     *)
(* slice).  A caller picks a counter and a block count and calls it once.  *)
(***************************************************************************)
\* The length of the counter: make([]byte, 16).
CounterLen == 16

\* The number of values of a byte: sum & 0xff, sum >> 8.
ByteRange == 256

\* The inner loop of incrementCounter: for j := i - 1; j >= 0 && carry > 0
\* (j here is the index of Go plus one).
RECURSIVE propagateCarry(_, _, _)
\* The inner loop stopped after one byte.
propagateCarryOneByte(counter, j, carry) ==
    IF j < 1 \/ carry <= 0
    THEN counter
    ELSE [counter EXCEPT ![j] = (@ + carry) % ByteRange]

propagateCarry(counter, j, carry) ==
    IF j < 1 \/ carry <= 0
    THEN counter
    ELSE LET sum == counter[j] + carry
         IN  propagateCarry([counter EXCEPT ![j] = sum % ByteRange],
                            j - 1, sum \div ByteRange)

\* The outer loop of incrementCounter: for i := 15; i >= 0 && blocks > 0.
RECURSIVE addBlocks(_, _, _)
addBlocks(counter, i, blocks) ==
    IF i < 1 \/ blocks <= 0
    THEN counter
    ELSE LET sum == counter[i] + (blocks % ByteRange)
             c1 == [counter EXCEPT ![i] = sum % ByteRange]
             c2 == IF sum > ByteRange - 1
                   THEN propagateCarry(c1, i - 1, sum \div ByteRange)
                   ELSE c1
         IN  addBlocks(c2, i - 1, blocks \div ByteRange)

\* incrementCounter(counter, blocks): the counter it leaves in the slice.
incrementCounter(counter, blocks) == addBlocks(counter, CounterLen, blocks)

\* The counters a caller starts from: the high bytes all 0 or all 0xff, the
\* three low bytes at and next to both ends of a byte.
EdgeBytes == {0, 1, ByteRange - 2, ByteRange - 1}
Counters ==
    { [i \in 1..CounterLen |->
          IF i <= CounterLen - 3 THEN h
          ELSE IF i = CounterLen - 2 THEN b2
          ELSE IF i = CounterLen - 1 THEN b1 ELSE b0] :
      h \in {0, ByteRange - 1}, b2 \in EdgeBytes, b1 \in EdgeBytes,
      b0 \in EdgeBytes }

\* The block counts a caller passes: of one, two and three bytes.
BlockCounts ==
    {1, 2, ByteRange - 1, ByteRange, ByteRange + 1,
     ByteRange * ByteRange - 1, ByteRange * ByteRange,
     ByteRange * ByteRange * ByteRange - 1}

InitCounter ==
    /\ hubClosed = FALSE
    /\ topics = EmptyMap
    /\ cleanupLoop = "select"
    /\ subs = <<>>
    /\ store = <<>>
    /\ now = 1
    /\ panicked = FALSE
    /\ \E c \in Counters : last = Op("counter", 0, c)
    /\ cryptor = NewAES256CTR
    /\ source = NoSource
    /\ threads = NoThreads

\* The call incrementCounter(counter, blocks) on the counter picked.
Increment(blocks) ==
    /\ last.op = "counter"
    /\ last' = Op("incrementCounter", 0,
                  [counter |-> last.out, blocks |-> blocks,
                   out |-> incrementCounter(last.out, blocks)])
    /\ UNCHANGED <<threads, cryptor, source, panicked>>
    /\ UNCHANGED hubVars

NextCounter == \E blocks \in BlockCounts : Increment(blocks)

SpecCounter == InitCounter /\ [][NextCounter]_vars

\* The bytes of n as a big-endian number of CounterLen bytes.
RECURSIVE BigEndian(_, _)
BigEndian(n, len) ==
    IF len = 0 THEN <<>>
    ELSE Append(BigEndian(n \div ByteRange, len - 1), n % ByteRange)

\* The sum modulo ByteRange^CounterLen of two big-endian numbers, by the
\* addition of the school: from the last byte to the first with one carry.
RECURSIVE SumFrom(_, _, _, _)
SumFrom(a, b, i, carry) ==
    IF i < 1 THEN a
    ELSE LET sum == a[i] + b[i] + carry
         IN  SumFrom([a EXCEPT ![i] = sum % ByteRange], b, i - 1,
                     sum \div ByteRange)

BigEndianSum(a, b) == SumFrom(a, b, CounterLen, 0)

(***************************************************************************)
(* C23.  incrementCounter(counter, k) leaves the counter that adding k to  *)
(* the counter as a big-endian number gives, modulo 2^128, and that is the *)
(* counter that incrementing by k - 1 and then by 1 leaves, for every      *)
(* counter and every k >= 1, with carries that ripple across bytes and     *)
(* with a wrap at the first byte.                                          *)
(***************************************************************************)
C23_IncrementIsBigEndianAdd ==
    last.op = "incrementCounter" =>
        LET c == last.out.counter
            k == last.out.blocks
        IN  /\ last.out.out = BigEndianSum(c, BigEndian(k, CounterLen))
            /\ last.out.out = incrementCounter(incrementCounter(c, k - 1), 1)

\* The counter of all 0xff is incremented by a count of two bytes: the carry
\* ripples to the first byte and the counter wraps.
C23_Witness ==
    /\ last.op = "incrementCounter"
    /\ last.out.counter = [i \in 1..CounterLen |-> ByteRange - 1]
    /\ last.out.blocks = ByteRange + 1
    /\ last.out.out = [i \in 1..CounterLen |->
                          IF i = CounterLen - 1 THEN 1 ELSE 0]

\* The step is a call that the cryptor must refuse: LoadMetadata with no
\* metadata or with another algorithm, SetSource before metadata is loaded,
\* Seek without a seeker, from the end of an unknown size, to a negative
\* position or with an invalid whence.
StructuralCall ==
    \/ last'.op = "LoadMetadata" /\ last'.out.md \in {Nil, "rc4"}
    \/ last'.op = "SetSource" /\ cryptor.metadata = Nil
    \/ /\ last'.op = "Seek"
       /\ \/ cryptor.seeker = Nil
          \/ last'.out.call.whence = 2 /\ cryptor.size < 0
          \/ last'.out.call.whence \notin {0, 1, 2}
          \/ seekPosition(cryptor, last'.out.call.offset,
                          last'.out.call.whence) < 0

(***************************************************************************)
(* C24.  A call with a structural error returns an error and leaves the    *)
(* cryptor's metadata, source, seeker, counterOffset, pos, size, eof and   *)
(* cipher stream, and the position of the source, as they were.            *)
(***************************************************************************)
C24_StructuralErrorChangesNothing ==
    [][StructuralCall =>
          /\ last'.out.err # Nil
          /\ cryptor' = cryptor
          /\ source' = source]_vars

\* A Seek with an invalid whence was refused on a cryptor that had read
\* from a seekable source.
C24_Witness ==
    /\ last.op = "Seek"
    /\ last.out.err = ErrStructural
    /\ last.out.call.whence = 3
    /\ cryptor.seeker # Nil
    /\ cryptor.pos > 0

(***************************************************************************)
(* C25.  When the source's Read returns n > 0 bytes together with an       *)
(* error, EOF or another, Read passes the n bytes through the cipher and   *)
(* adds n to pos before it returns the error: the keystream and pos have   *)
(* advanced by n, as the source has.                                       *)
(***************************************************************************)
C25_ErrorReadStillDecrypts ==
    [][/\ last'.op = "Read"
       /\ ~panicked'
       /\ last'.out.n > 0
       /\ last'.out.err # Nil
       => /\ cryptor'.stream = cryptor.stream + last'.out.n
          /\ cryptor'.pos = cryptor.pos + last'.out.n
          /\ source'.at = source.at + last'.out.n]_vars

(***************************************************************************)
(* Key wrapping alone (EncryptWithMasterKey, DecryptWithMasterKey): keys,  *)
(* IVs and data are sequences of bytes.  AES is a function of the key and  *)
(* of the counter block that the model fixes arbitrarily; CTR mode XORs    *)
(* byte i of the data with byte i % 16 of the block for counter            *)
(* IV + i / 16.                                                            *)
(***************************************************************************)
\* The length of the wrap IV, which is the AES block size: make([]byte, 16).
IVLen == 16

\* The key lengths that aes.NewCipher accepts.
KeyLens == {16, 24, 32}

ErrKeySize == "crypto/aes: invalid key size"
ErrRand == "rand.Reader failed"

RECURSIVE SumBytes(_)
SumBytes(q) == IF q = <<>> THEN 0 ELSE (Head(q) + SumBytes(Tail(q))) % ByteRange

\* The XOR of two bytes: XORKeyStream.
RECURSIVE XorBits(_, _, _)
XorBits(a, b, n) ==
    IF n = 0 THEN 0
    ELSE ((a + b) % 2) + 2 * XorBits(a \div 2, b \div 2, n - 1)

Xor(a, b) == XorBits(a, b, 8)

\* block.Encrypt(counter)[j]: byte j of the AES block of a counter under a
\* key, a fixed function that depends on all three.
AESBlockByte(key, counter, j) ==
    (7 * SumBytes(key) + 3 * SumBytes(counter) + 5 * counter[IVLen] + 11 * j + 1)
        % ByteRange

\* The counter that CTR mode uses for block b: the IV plus b, big-endian.
CTRCounter(iv, b) == BigEndianSum(iv, BigEndian(b, IVLen))

\* cipher.NewCTR(block, iv) followed by XORKeyStream(dst, src) from the
\* start of the keystream.
CTRStream(key, iv, src) ==
    [i \in 1..Len(src) |->
        Xor(src[i],
            AESBlockByte(key, CTRCounter(iv, (i - 1) \div IVLen),
                         (i - 1) % IVLen))]

\* EncryptWithMasterKey(masterKey, data); iv is what rand.Reader delivers,
\* empty when it fails.  A nil slice is the empty sequence.
EncryptWithMasterKey(masterKey, data, iv) ==
    IF Len(masterKey) \notin KeyLens
    THEN [out |-> <<>>, err |-> ErrKeySize]
    ELSE IF iv = <<>>
    THEN [out |-> <<>>, err |-> ErrRand]
    ELSE [out |-> iv \o CTRStream(masterKey, iv, data), err |-> Nil]

\* DecryptWithMasterKey that takes the whole input for ciphertext.
DecryptWithMasterKeyKeepingIV(masterKey, encryptedData) ==
    IF Len(encryptedData) < IVLen \/ Len(masterKey) \notin KeyLens
    THEN [out |-> <<>>, err |-> ErrKeySize]
    ELSE [out |-> CTRStream(masterKey, SubSeq(encryptedData, 1, IVLen),
                            encryptedData),
          err |-> Nil]

\* DecryptWithMasterKey(masterKey, encryptedData)
DecryptWithMasterKey(masterKey, encryptedData) ==
    IF Len(encryptedData) < IVLen
    THEN [out |-> <<>>, err |-> ErrKeySize]
    ELSE LET iv == SubSeq(encryptedData, 1, IVLen)
             encrypted == SubSeq(encryptedData, IVLen + 1, Len(encryptedData))
         IN  IF Len(masterKey) \notin KeyLens
             THEN [out |-> <<>>, err |-> ErrKeySize]
             ELSE [out |-> CTRStream(masterKey, iv, encrypted), err |-> Nil]

\* n bytes of value b
Bytes(n, b) == [i \in 1..n |-> b]

\* The master keys a caller holds: of 32 and 16 bytes, and one of a length
\* that AES refuses.
MasterKeys == {Bytes(32, 7), Bytes(32, 200), Bytes(16, 7), Bytes(5, 7)}

\* The data a caller wraps: nothing, one byte, a 32-byte file key, and a
\* string one byte longer than two blocks.
Datas == {<<>>, <<255>>, Bytes(32, 0), Bytes(32, 171), Bytes(33, 1)}

\* The IVs rand.Reader delivers, one of them at the wrap of the counter.
IVs == {Bytes(IVLen, 0), Bytes(IVLen, ByteRange - 1), Bytes(IVLen, 90)}

\* The lengths to which a caller cuts the wrapped key before unwrapping it.
CutLens == {0, 1, IVLen - 1, IVLen}

InitWrap ==
    /\ hubClosed = FALSE
    /\ topics = EmptyMap
    /\ cleanupLoop = "select"
    /\ subs = <<>>
    /\ store = <<>>
    /\ now = 1
    /\ panicked = FALSE
    /\ \E k \in MasterKeys, d \in Datas :
          last = Op("wrap", 0, [masterKey |-> k, data |-> d])
    /\ cryptor = NewAES256CTR
    /\ source = NoSource
    /\ threads = NoThreads

\* The call EncryptWithMasterKey(masterKey, data).
Encrypt(iv) ==
    /\ last.op = "wrap"
    /\ last' = Op("EncryptWithMasterKey", 0,
                  [masterKey |-> last.out.masterKey, data |-> last.out.data,
                   r |-> EncryptWithMasterKey(last.out.masterKey,
                                              last.out.data, iv)])
    /\ UNCHANGED <<threads, cryptor, source, panicked>>
    /\ UNCHANGED hubVars

\* The call DecryptWithMasterKey(masterKey, wrapped[:len]) on what
\* EncryptWithMasterKey returned; whole tells whether it is passed uncut.
Decrypt(whole, len) ==
    /\ last.op = "EncryptWithMasterKey"
    /\ last.out.r.err = Nil
    /\ LET in == IF whole THEN last.out.r.out
                 ELSE SubSeq(last.out.r.out, 1, len)
       IN  last' = Op("DecryptWithMasterKey", 0,
                      [masterKey |-> last.out.masterKey,
                       data |-> last.out.data,
                       wrapped |-> last.out.r.out,
                       in |-> in,
                       r |-> DecryptWithMasterKey(last.out.masterKey, in)])
    /\ UNCHANGED <<threads, cryptor, source, panicked>>
    /\ UNCHANGED hubVars

NextWrap ==
    \/ \E iv \in IVs \cup {<<>>} : Encrypt(iv)
    \/ \E whole \in BOOLEAN, len \in CutLens : Decrypt(whole, len)

SpecWrap == InitWrap /\ [][NextWrap]_vars

(***************************************************************************)
(* C26.  What EncryptWithMasterKey returns for data d is a 16-byte IV      *)
(* followed by as many bytes as d has (48 bytes for a 32-byte key);        *)
(* DecryptWithMasterKey under the same master key returns d for it, and    *)
(* returns an error and no key for an input shorter than 16 bytes.         *)
(***************************************************************************)
C26_WrapRoundTrip ==
    /\ last.op = "EncryptWithMasterKey" /\ last.out.r.err = Nil =>
          /\ Len(last.out.r.out) = IVLen + Len(last.out.data)
          /\ Len(last.out.data) = 32 => Len(last.out.r.out) = 48
    /\ last.op = "DecryptWithMasterKey" =>
          /\ last.out.in = last.out.wrapped =>
                last.out.r.err = Nil /\ last.out.r.out = last.out.data
          /\ Len(last.out.in) < IVLen =>
                last.out.r.err # Nil /\ last.out.r.out = <<>>

\* A 32-byte file key wrapped with an IV at the wrap of the counter, so that
\* its second block uses the counter of all zeros, was unwrapped.
C26_Witness ==
    /\ last.op = "DecryptWithMasterKey"
    /\ last.out.data = Bytes(32, 171)
    /\ Len(last.out.in) = 48
    /\ SubSeq(last.out.in, 1, IVLen) = Bytes(IVLen, ByteRange - 1)
    /\ last.out.in # Bytes(IVLen, ByteRange - 1) \o last.out.data
    /\ last.out.r.out = last.out.data

(***************************************************************************)
(* Events of a move (package dbfs, events.go): a tree of folders, each a   *)
(* topic of the hub; clients subscribe to folders and a file is moved from *)
(* one folder into another.  A path is the sequence of its names; the      *)
(* relative path "/" is the empty sequence.                                *)
(***************************************************************************)
\* The folders: /, /a, /a/c and /b.
Folders == {<<>>, <<"a">>, <<"a", "c">>, <<"b">>}

\* Model.ID of a folder, its topic.
FolderID(p) ==
    CASE p = <<>> -> 1
      [] p = <<"a">> -> 2
      [] p = <<"a", "c">> -> 3
      [] OTHER -> 4

\* The client ids that subscribe and that originate requests; Nil is a
\* request without request info.
Clients == {"c1", "c2"}

\* The name of the file that is moved.
FileName == "f"

IsPrefix(a, b) == Len(a) <= Len(b) /\ SubSeq(b, 1, Len(a)) = a

\* foundSubscriber.relativePath: strings.TrimPrefix of the file's path by
\* the root's path.
relativePath(root, path) ==
    IF IsPrefix(root, path) THEN SubSeq(path, Len(root) + 1, Len(path))
    ELSE path

\* file.Ancestors(): the folders above a file, and file.AncestorsChain():
\* the folder itself and those above it; deepFirst gives the order.
RECURSIVE ChainOf(_)
ChainOf(p) ==
    IF p = <<>> THEN <<p>>
    ELSE <<p>> \o ChainOf(SubSeq(p, 1, Len(p) - 1))

RECURSIVE Reverse(_)
Reverse(q) == IF q = <<>> THEN <<>> ELSE Append(Reverse(Tail(q)), Head(q))

Ancestors(path, deepFirst) ==
    LET c == ChainOf(SubSeq(path, 1, Len(path) - 1))
    IN  IF deepFirst THEN c ELSE Reverse(c)

AncestorsChain(path, deepFirst) ==
    LET c == ChainOf(path) IN IF deepFirst THEN c ELSE Reverse(c)

\* eventHub.GetSubscribers(ctx, topic) without the subscriber of clientID:
\* the filter of getEligibleSubscriber, each with its root.
RECURSIVE FoundIn(_, _, _)
FoundIn(ids, root, clientID) ==
    IF ids = {} THEN <<>>
    ELSE LET id == CHOOSE x \in ids : TRUE
             m == topics[FolderID(root)]
             rest == FoundIn(ids \ {id}, root, clientID)
         IN  IF id = clientID THEN rest
             ELSE <<[k |-> m[id], id |-> id, root |-> root]>> \o rest

\* DBFS.getEligibleSubscriber over the roots given.
RECURSIVE getEligibleSubscriber(_, _)
getEligibleSubscriber(roots, clientID) ==
    IF roots = <<>> THEN <<>>
    ELSE LET t == FolderID(Head(roots))
             here == IF t \in DOMAIN topics
                     THEN FoundIn(DOMAIN topics[t], Head(roots), clientID)
                     ELSE <<>>
         IN  here \o getEligibleSubscriber(Tail(roots), clientID)

\* lo.SliceToMap(found, subscriber.ID() -> &subscriber): a later element
\* replaces an earlier one of the same id.
RECURSIVE SliceToMap(_)
SliceToMap(found) ==
    IF found = <<>> THEN EmptyMap
    ELSE LET h == found[Len(found)]
         IN  (h.id :> h) @@ SliceToMap(SubSeq(found, 1, Len(found) - 1))

\* What emitFileMoved publishes for file FileName of folder src moved into
\* folder dst: a function from subscriber objects to the event each is sent.
MoveEvents(src, dst, clientID, deepFirst) ==
    LET srcPath == Append(src, FileName)
        srcSubMap == SliceToMap(
                        getEligibleSubscriber(Ancestors(srcPath, deepFirst),
                                              clientID))
        dstSubMap == SliceToMap(
                        getEligibleSubscriber(AncestorsChain(dst, deepFirst),
                                              clientID))
        both == DOMAIN srcSubMap \cap DOMAIN dstSubMap
        onlySrc == DOMAIN srcSubMap \ DOMAIN dstSubMap
        onlyDst == DOMAIN dstSubMap \ DOMAIN srcSubMap
    IN  [x \in { srcSubMap[id].k : id \in DOMAIN srcSubMap }
               \cup { dstSubMap[id].k : id \in onlyDst } |->
            LET id == subs[x].id
            IN  IF id \in both
                THEN Event(EventTypeRename, FileName,
                           relativePath(srcSubMap[id].root, srcPath),
                           Append(relativePath(dstSubMap[id].root, dst),
                                  FileName))
                ELSE IF id \in onlySrc
                THEN Event(EventTypeDelete, FileName,
                           relativePath(srcSubMap[id].root, srcPath), "")
                ELSE Event(EventTypeCreate, FileName,
                           Append(relativePath(dstSubMap[id].root, dst),
                                  FileName), "")]

InitMove ==
    /\ hubClosed = FALSE
    /\ topics = EmptyMap
    /\ cleanupLoop = "select"
    /\ subs = <<>>
    /\ store = <<>>
    /\ now = 1
    /\ panicked = FALSE
    /\ last = Op("NewEventHub", 0, <<>>)
    /\ cryptor = NewAES256CTR
    /\ source = NoSource
    /\ threads = NoThreads

\* eventHub.Subscribe of a login user to a folder under an id not yet
\* registered there: a new subscriber is registered.
SubscribeFolder(folder, id) ==
    /\ last.op # "emitFileMoved"
    /\ Len(subs) < MaxSubs
    /\ LET t == FolderID(folder)
           m == IF t \in DOMAIN topics THEN topics[t] ELSE EmptyMap
       IN  /\ id \notin DOMAIN m
           /\ subs' = Append(subs, newSubscriber(id, "u1"))
           /\ topics' = (t :> ((id :> Len(subs) + 1) @@ m)) @@ topics
           /\ last' = Op("Subscribe", Len(subs) + 1,
                         [key |-> <<t, id>>, folder |-> folder, err |-> Nil])
    /\ UNCHANGED <<threads, cryptor, source, hubClosed, cleanupLoop, store, now, panicked>>

\* DBFS.emitFileMoved(ctx, src, dst) for the file FileName of folder src
\* moved into folder dst, on a request of client clientID.
emitFileMoved(src, dst, clientID, deepFirst) ==
    /\ last.op # "emitFileMoved"
    /\ src # dst
    /\ LET evs == MoveEvents(src, dst, clientID, deepFirst)
       IN  subs' = [k \in DOMAIN subs |->
                       IF k \in DOMAIN evs THEN Publish(subs[k], evs[k])
                       ELSE subs[k]]
    /\ last' = Op("emitFileMoved", 0,
                  [src |-> src, dst |-> dst, clientID |-> clientID])
    /\ UNCHANGED <<threads, cryptor, source, hubClosed, topics, cleanupLoop, store, now,
                   panicked>>

NextMove ==
    \/ \E folder \in Folders, id \in Clients : SubscribeFolder(folder, id)
    \/ \E src \in Folders, dst \in Folders, clientID \in Clients \cup {Nil},
          deepFirst \in BOOLEAN :
          emitFileMoved(src, dst, clientID, deepFirst)

SpecMove == InitMove /\ [][NextMove]_vars

\* The folder that subscriber object k is registered on.
FolderOf(k) ==
    CHOOSE p \in Folders :
        /\ FolderID(p) \in DOMAIN topics
        /\ \E id \in DOMAIN topics[FolderID(p)] : topics[FolderID(p)][id] = k

\* What a subscriber on folder root is owed for the move of FileName from
\* folder src into folder dst.
MoveOwed(root, src, dst) ==
    LET onSrc == IsPrefix(root, src)
        onDst == IsPrefix(root, dst)
        from == SubSeq(src, Len(root) + 1, Len(src)) \o <<FileName>>
        to == SubSeq(dst, Len(root) + 1, Len(dst)) \o <<FileName>>
    IN  IF onSrc /\ onDst
        THEN <<Event(EventTypeRename, FileName, from, to)>>
        ELSE IF onSrc THEN <<Event(EventTypeDelete, FileName, from, "")>>
        ELSE IF onDst THEN <<Event(EventTypeCreate, FileName, to, "")>>
        ELSE <<>>

(***************************************************************************)
(* C27.  After a move every registered subscriber other than those of the  *)
(* originating client has received exactly the one event its folder is     *)
(* owed: a Rename with From and To relative to that folder when the folder *)
(* is above the source and on the destination chain, a Delete when only    *)
(* above the source, a Create when only on the destination chain, and      *)
(* nothing otherwise; also when one client id is registered on several     *)
(* folders.                                                                *)
(***************************************************************************)
C27_MoveEventPerSubscriber ==
    last.op = "emitFileMoved" =>
        \A k \in DOMAIN subs :
            subs[k].id # last.out.clientID =>
                subs[k].buffer = MoveOwed(FolderOf(k), last.out.src, last.out.dst)

\* The rows that a write of the events q for subscriber s adds to the table.
RowsFor(s, q) ==
    [i \in 1..Len(q) |->
        [subscriber |-> FromStringOrNil(s.id), user_fsevent |-> s.uid,
         event |-> Marshal(q[i])]]

(***************************************************************************)
(* C28.  An Unsubscribe of a registered subscriber whose buffer holds      *)
(* pending events leaves the buffer empty and the timer handle unset, puts *)
(* nothing on the channel of the client that disconnects, and adds to the  *)
(* durable store exactly the pending events, under the subscriber (a write *)
(* that the store refuses is not held against the claim).                  *)
(***************************************************************************)
C28_UnsubscribePersistsPending ==
    [][\A k \in 1..MaxSubs :
         (/\ k \in Objs
          /\ Did("Unsubscribe", k)
          /\ ~panicked'
          /\ ~subs[k].closed
          /\ subs[k].buffer # <<>>) =>
             /\ subs'[k].buffer = <<>>
             /\ subs'[k].timer = Nil
             /\ subs'[k].ch = subs[k].ch
             /\ store' \in {store, store \o RowsFor(subs[k], subs[k].buffer)}]_vars

\* The step just taken ran flushLocked on subscriber k while k was offline
\* with events in its buffer: a timer callback, or the Stop of an
\* Unsubscribe.
OfflineFlush(k) ==
    /\ k \in Objs
    /\ Did("flush", k) \/ Did("Unsubscribe", k)
    /\ ~subs[k].online
    /\ ~subs[k].closed
    /\ subs[k].buffer # <<>>

(***************************************************************************)
(* C29.  A flush of an offline subscriber hands the buffered events, as    *)
(* they were published and in that order, to one write to the durable      *)
(* store under the subscriber's id and the id of the user the subscriber   *)
(* was created for (a write that the store refuses is not held against the *)
(* claim), sends nothing on the channel, and leaves the buffer empty and   *)
(* the timer handle unset.                                                 *)
(***************************************************************************)
C29_OfflineFlushWritesBuffer ==
    [][\A k \in 1..MaxSubs : OfflineFlush(k) =>
         /\ ~panicked'
         /\ store' \in {store, store \o RowsFor(subs[k], subs[k].buffer)}
         /\ subs'[k].ch = subs[k].ch
         /\ subs'[k].buffer = <<>>
         /\ subs'[k].timer = Nil]_vars

\* The debounce timers of subscriber s that are armed and have neither
\* fired nor been cancelled.
PendingTimers(s) == (IF s.timer = "pending" THEN 1 ELSE 0) + s.orphans

(***************************************************************************)
(* C30.  Every subscriber has at most one pending debounce timer (armed,   *)
(* not fired, not cancelled) at any moment, and a pending timer is the one *)
(* the handle s.timer refers to, under every interleaving of Publish,      *)
(* timer callbacks, Stop, setOnline, setOffline and close.                 *)
(***************************************************************************)
C30_OnePendingTimer ==
    \A k \in Objs :
        /\ PendingTimers(subs[k]) <= 1
        /\ subs[k].orphans = 0

C32_ClosedHubTellsPublisher ==
    hubClosed =>
        /\ last.op = "GetSubscribers" => last.out.err # Nil
        /\ last.op = "Publish" => last.out # <<>>


(***************************************************************************)
(* The hub lock under its scheduler: the operations that take the hub     *)
(* lock (Subscribe, Unsubscribe, GetSubscribers, the sweep, Close), the    *)
(* publishers that give the subscribers something to flush and to delete,  *)
(* and the clock that lets subscribers expire.  The sweeper goroutine      *)
(* selects on closeCh and on its ticker, so once closeCh is closed it      *)
(* cannot take the ticker branch forever.                                  *)
(***************************************************************************)
NextClose ==
    \/ \E t \in Topics, i \in Ids, u \in CtxUsers : Subscribe(t, i, u)
    \/ \E t \in Topics, i \in Ids : Unsubscribe(t, i)
    \/ \E t \in Topics : GetSubscribers(t)
    \/ \E k \in 1..MaxSubs :
          PublishEvent(k, Event(EventTypeModify, "f2", "/b", ""))
    \/ \E k \in 1..MaxSubs : OwnerCall(k)
    \/ cleanupExpiredSubscribers
    \/ cleanupLoopExit
    \/ Close
    \/ Tick

SpecClose == Init /\ [][NextClose]_vars /\ WF_vars(cleanupLoopExit)

\* C33: Close terminates with everything shut down.  The Close that closes
\* the hub closes every subscriber registered on any topic and empties the
\* registry; from then on the sweeper goroutine exits (the wg.Wait of Close
\* returns) unless the process has died of a panic, whether or not sweeps
\* run in between; a Close on a closed hub changes no subscriber, no row,
\* no registry entry and not the sweeper.
C33_CloseTerminatesAndClosesAll ==
    /\ [][/\ (~hubClosed /\ hubClosed') =>
                /\ last'.op = "Close"
                /\ \A k \in Registered :
                      subs'[k].closed /\ subs'[k].chClosed
                /\ topics' = EmptyMap
          /\ hubClosed =>
                /\ hubClosed'
                /\ topics' = EmptyMap
                /\ cleanupLoop' # cleanupLoop => cleanupLoop' = "done"
                /\ last'.op = "Close" =>
                      UNCHANGED <<subs, store, topics, cleanupLoop>>]_vars
    /\ (hubClosed ~> (cleanupLoop = "done" \/ panicked))

C33_Witness ==
    /\ hubClosed
    /\ cleanupLoop = "done"
    /\ last.op = "Close"
    /\ Len(subs) = MaxSubs
    /\ \E k \in 1..Len(subs) : subs[k].closed /\ subs[k].chClosed

(***************************************************************************)
(* C34.  A Modify is not lost in a Rename round trip: when the events of   *)
(* the input on a file are Modify and Rename events only, one of them a    *)
(* Modify, DebounceEvents returns an event on that file.                   *)
(***************************************************************************)
C34_ModifyKeepsRoundTrip ==
    Debounced =>
        \A f \in Files :
            LET p == OnFile(last.out.in, f)
            IN  (/\ \E i \in 1..Len(p) : p[i].type = EventTypeModify
                 /\ \A i \in 1..Len(p) :
                       p[i].type \in {EventTypeModify, EventTypeRename})
                => OnFile(last.out.out, f) # <<>>

(***************************************************************************)
(* C35.  No offline flush meets an absent owner record: no goroutine has   *)
(* panicked, and a subscriber that is offline with events in its buffer,   *)
(* whose next flush is an offline one, has its owner cached.               *)
(***************************************************************************)
C35_OfflineFlushHasOwner ==
    /\ ~panicked
    /\ \A k \in Objs :
          (/\ ~subs[k].closed
           /\ ~subs[k].online
           /\ subs[k].buffer # <<>>) => subs[k].ownerCached # Nil

(***************************************************************************)
(* Two folders: a client id may come in under either topic.  The           *)
(* publishers of a topic reach its subscribers through                     *)
(* GetSubscribers(topic) and emit events on the files of that folder.      *)
(***************************************************************************)
TenantTopics == {1, 2}

\* The event a publisher emits on a file of folder t.
TopicEvent(t) ==
    Event(EventTypeModify, IF t = 1 THEN "f1" ELSE "f2", "/a", "")

\* The folder of the file an event is about.
TopicOf(e) == IF e.file_id = "f1" THEN 1 ELSE 2

RECURSIVE InFlight(_, _)
\* The events held by the first k subscriber objects of ss, in buffers and
\* on channels.
InFlight(ss, k) ==
    IF k = 0 THEN 0
    ELSE Len(ss[k].buffer) + Len(ss[k].ch) + InFlight(ss, k - 1)

\* A publisher of topic t finds subscriber id among GetSubscribers(t) and
\* publishes on it, while fewer than MaxEvents events are on their way.
PublishOn(t, id) ==
    /\ Len(store) + InFlight(subs, Len(subs)) < MaxEvents
    /\ t \in DOMAIN topics
    /\ id \in DOMAIN topics[t]
    /\ PublishEvent(topics[t][id], TopicEvent(t))

NextTopics ==
    \/ \E t \in TenantTopics, i \in Ids : Subscribe(t, i, "u1")
    \/ \E t \in TenantTopics, i \in Ids : Unsubscribe(t, i)
    \/ \E t \in TenantTopics, i \in Ids : PublishOn(t, i)
    \/ \E k \in 1..MaxSubs : TimerFire(k)
    \/ \E k \in 1..MaxSubs : flush(k)
    \/ \E k \in 1..MaxSubs : Receive(k)
    \/ cleanupExpiredSubscribers
    \/ Tick

SpecTopics == Init /\ [][NextTopics]_vars

\* The rows of the table that hold events of topic t.
TopicRows(st, t) ==
    LET OfTopic(r) == TopicOf(Unmarshal(r.event)) = t
    IN  SelectSeq(st, OfTopic)

(***************************************************************************)
(* C36.  Events are isolated per topic: the channel and the buffer of the  *)
(* subscriber registered under a topic hold only events published on that  *)
(* topic, and a row holding an event of a topic leaves the table only in a *)
(* Subscribe on that topic or when the subscriber of that topic is closed. *)
(***************************************************************************)
C36_TopicsAreIsolated ==
    /\ [](\A t \in TenantTopics, i \in Ids :
            (t \in DOMAIN topics /\ i \in DOMAIN topics[t]) =>
               \A e \in Range(subs[topics[t][i]].ch)
                          \cup Range(subs[topics[t][i]].buffer) :
                  TopicOf(e) = t)
    /\ [][\A t \in TenantTopics :
            Len(TopicRows(store', t)) < Len(TopicRows(store, t)) =>
               \/ last'.op = "Subscribe" /\ last'.out.key[1] = t
               \/ \E i \in Ids :
                     /\ t \in DOMAIN topics
                     /\ i \in DOMAIN topics[t]
                     /\ ~subs[topics[t][i]].closed
                     /\ subs'[topics[t][i]].closed]_vars

(***************************************************************************)
(* Two users: a client id may come in from either login user, on one       *)
(* topic.                                                                  *)
(***************************************************************************)
TenantUsers == {"u1", "u2"}

NextUsers ==
    \/ \E t \in Topics, i \in Ids, u \in TenantUsers : Subscribe(t, i, u)
    \/ \E t \in Topics, i \in Ids : Unsubscribe(t, i)
    \/ \E k \in 1..MaxSubs :
          PublishEvent(k, Event(EventTypeModify, "f2", "/b", ""))
    \/ \E k \in 1..MaxSubs : TimerFire(k)
    \/ \E k \in 1..MaxSubs : flush(k)
    \/ \E k \in 1..MaxSubs : Receive(k)
    \/ \E k \in 1..MaxSubs : OwnerCall(k)

SpecUsers == Init /\ [][NextUsers]_vars

(***************************************************************************)
(* C37.  A Subscribe that returns a channel returns the channel of a       *)
(* subscriber owned by the user of the request: the subscriber it returns, *)
(* with whatever is buffered and persisted for it, was created for that    *)
(* user.                                                                   *)
(***************************************************************************)
C37_ChannelOfOwnUser ==
    [][\A k \in 1..MaxSubs :
         (Did("Subscribe", k) /\ last'.out.err = Nil) =>
            subs'[k].uid = last'.out.user]_vars

(***************************************************************************)
(* The SSE handlers (service/explorer/events.go).  Every connection of a   *)
(* client runs HandleExplorerEventsPush in its own goroutine: it           *)
(* subscribes, then loops on its channel until the connection is gone,     *)
(* when it unsubscribes and returns.  The connections here are those of    *)
(* one client of one user on one folder, so they all pass the same         *)
(* (topic, id); threads[c] is where the handler of connection c stands:    *)
(* "idle" (not started, or returned) or "loop".                            *)
(***************************************************************************)
Conns == {1, 2}

InitHandlers ==
    /\ hubClosed = FALSE
    /\ topics = EmptyMap
    /\ cleanupLoop = "select"
    /\ subs = <<>>
    /\ store = <<>>
    /\ now = 1
    /\ panicked = FALSE
    /\ last = Op("NewEventHub", 0, <<>>)
    /\ cryptor = NewAES256CTR
    /\ source = NoSource
    /\ threads = [c \in Conns |-> "idle"]

\* A connection comes in: the handler subscribes and enters its loop, or
\* returns the error of Subscribe.
Connect(c) ==
    /\ threads[c] = "idle"
    /\ SubscribeCall(1, "c1", "u1")
    /\ threads' = [threads EXCEPT
                     ![c] = IF last'.out.err = Nil THEN "loop" ELSE "idle"]

\* The handler sees its connection gone (CloseNotify, or the request context
\* done), unsubscribes and returns.
Disconnect(c) ==
    /\ threads[c] = "loop"
    /\ UnsubscribeCall(1, "c1")
    /\ threads' = IF panicked' THEN threads
                  ELSE [threads EXCEPT ![c] = "idle"]

\* A handler in its loop receives an event from the channel Subscribe gave
\* it and writes it to its connection.
HandlerReceive(c) ==
    /\ threads[c] = "loop"
    /\ Live(1, "c1")
    /\ Receive(topics[1]["c1"])

NextHandlers ==
    \/ \E c \in Conns : Connect(c)
    \/ \E c \in Conns : Disconnect(c)
    \/ \E c \in Conns : HandlerReceive(c)
    \/ \E k \in 1..MaxSubs :
          PublishEvent(k, Event(EventTypeModify, "f2", "/b", ""))
    \/ \E k \in 1..MaxSubs : TimerFire(k)
    \/ \E k \in 1..MaxSubs : flush(k)
    \/ \E k \in 1..MaxSubs : OwnerCall(k)

SpecHandlers == InitHandlers /\ [][NextHandlers]_vars

(***************************************************************************)
(* C38.  While a handler of (topic, id) is in its loop, having subscribed  *)
(* and not yet unsubscribed, the subscriber is registered, open and        *)
(* online.                                                                 *)
(***************************************************************************)
C38_OnlineWhileConnected ==
    (\E c \in Conns : threads[c] = "loop") =>
        /\ Live(1, "c1")
        /\ subs[topics[1]["c1"]].online

(***************************************************************************)
(* The locks.  Here a goroutine is followed from one lock operation to the *)
(* next: threads.run[th] is what goroutine th still has to do of the       *)
(* method it runs (empty: it runs none), threads.mu and threads.rd are the *)
(* writer and the readers of eventHub.mu, threads.smu[s] is the holder of  *)
(* the mutex of subscriber s.  Goroutine 0 is cleanupLoop, the others call *)
(* the hub and the subscribers; a timer callback is one of the callers.    *)
(* threads.left[th] is the number of methods caller th may still start.    *)
(* What the methods do to the subscribers between the lock operations is   *)
(* left to the specifications above.                                       *)
(***************************************************************************)
Callers == {1, 2}
MaxCalls == 1
LockThreads == {0} \cup Callers
LockSubs == 1..MaxSubs

Instr(op, s) == [op |-> op, s |-> s]

\* A subscriber method: s.mu.Lock(); defer s.mu.Unlock()
Locked(s) == <<Instr("s.Lock", s), Instr("s.Unlock", s)>>

\* e.mu.Lock(); defer e.mu.Unlock(); if e.closed { return }; body
HubLocked(body) ==
    <<Instr("e.Lock", 0), Instr("e.closed", 0)>> \o body
        \o <<Instr("e.Unlock", 0)>>

RECURSIVE ForEachSub(_, _)
\* The lock operations of a loop over the subscribers 1..k, each iteration
\* calling the subscriber methods body(s).
ForEachSub(body(_), k) ==
    IF k = 0 THEN <<>> ELSE ForEachSub(body, k - 1) \o body(k)

\* Subscribe: a new subscriber (no subscriber mutex), a closed one that is
\* replaced (isClosed), or an open one that is resumed (isClosed, setOnline).
LocksOfSubscribe ==
    {HubLocked(<<>>)}
        \cup { HubLocked(Locked(s)) : s \in LockSubs }
        \cup { HubLocked(Locked(s) \o Locked(s)) : s \in LockSubs }

\* Unsubscribe: nothing registered, or sub.Stop() and sub.setOffline().
LocksOfUnsubscribe ==
    {HubLocked(<<>>)}
        \cup { HubLocked(Locked(s) \o Locked(s)) : s \in LockSubs }

\* cleanupExpiredSubscribers: shouldExpire and close on every subscriber.
shouldExpireAndClose(s) == Locked(s) \o Locked(s)

LocksOfSweep == HubLocked(ForEachSub(shouldExpireAndClose, MaxSubs))

\* Close: closes the hub and every subscriber under the lock, then waits for
\* cleanupLoop.
LocksOfClose ==
    <<Instr("e.Lock", 0), Instr("e.closed", 0), Instr("close", 0)>>
        \o ForEachSub(Locked, MaxSubs)
        \o <<Instr("e.Unlock", 0), Instr("wg.Wait", 0)>>

\* A publisher: GetSubscribers, then Publish on one of the subscribers.
LocksOfPublish ==
    { <<Instr("e.RLock", 0), Instr("e.RUnlock", 0)>> \o Locked(s)
      : s \in LockSubs }

\* A timer callback that takes the hub lock inside flush.
LocksOfFlushThroughHub ==
    { <<Instr("s.Lock", s), Instr("e.Lock", 0), Instr("e.Unlock", 0),
        Instr("s.Unlock", s)>> : s \in LockSubs }

\* A timer callback: subscriber.flush.
LocksOfFlush == { Locked(s) : s \in LockSubs }

\* Subscriber.Owner, called on a handle.
LocksOfOwner == { Locked(s) : s \in LockSubs }

\* What a caller can run.
CallerPrograms ==
    LocksOfSubscribe \cup LocksOfUnsubscribe \cup {LocksOfClose}
        \cup LocksOfPublish \cup LocksOfFlush \cup LocksOfOwner

InitLocks ==
    /\ hubClosed = FALSE
    /\ topics = EmptyMap
    /\ cleanupLoop = "select"
    /\ subs = <<>>
    /\ store = <<>>
    /\ now = 1
    /\ panicked = FALSE
    /\ last = Op("NewEventHub", 0, <<>>)
    /\ cryptor = NewAES256CTR
    /\ source = NoSource
    /\ threads = [run |-> [th \in LockThreads |-> <<>>],
                  left |-> [th \in Callers |-> MaxCalls],
                  mu |-> {}, rd |-> {},
                  smu |-> [s \in LockSubs |-> {}]]

\* A caller starts a method.
Start(th) ==
    /\ threads.run[th] = <<>>
    /\ threads.left[th] > 0
    /\ \E p \in CallerPrograms :
          threads' = [threads EXCEPT !.run[th] = p, !.left[th] = @ - 1]
    /\ UNCHANGED <<cryptor, source, hubClosed, topics, cleanupLoop, subs, store, now, panicked, last>>

\* The ticker of cleanupLoop fires: the goroutine calls
\* cleanupExpiredSubscribers.
Ticker ==
    /\ cleanupLoop = "select"
    /\ threads.run[0] = <<>>
    /\ threads' = [threads EXCEPT !.run[0] = LocksOfSweep]
    /\ UNCHANGED <<cryptor, source, hubClosed, topics, cleanupLoop, subs, store, now, panicked, last>>

\* cleanupLoop, back in its select, receives from closeCh and returns.
SweeperExit ==
    /\ cleanupLoop = "select"
    /\ threads.run[0] = <<>>
    /\ hubClosed
    /\ cleanupLoop' = "done"
    /\ UNCHANGED <<threads, cryptor, source, hubClosed, topics, subs, store, now, panicked, last>>

\* Whether goroutine th can perform instruction i now.
CanRun(th, i) ==
    CASE i.op = "e.Lock"  -> threads.mu = {} /\ threads.rd = {}
      [] i.op = "e.RLock" -> threads.mu = {}
      [] i.op = "s.Lock"  -> threads.smu[i.s] = {}
      [] i.op = "wg.Wait" -> cleanupLoop = "done"
      [] OTHER            -> TRUE

\* Goroutine th performs its next lock operation.
Step(th) ==
    /\ threads.run[th] # <<>>
    /\ LET i == Head(threads.run[th])
           rest == Tail(threads.run[th])
       IN  /\ CanRun(th, i)
           /\ threads' =
                CASE i.op = "e.Lock" ->
                       [threads EXCEPT !.run[th] = rest, !.mu = {th}]
                  [] i.op = "e.Unlock" ->
                       [threads EXCEPT !.run[th] = rest, !.mu = {}]
                  [] i.op = "e.RLock" ->
                       [threads EXCEPT !.run[th] = rest, !.rd = @ \cup {th}]
                  [] i.op = "e.RUnlock" ->
                       [threads EXCEPT !.run[th] = rest, !.rd = @ \ {th}]
                  [] i.op = "s.Lock" ->
                       [threads EXCEPT !.run[th] = rest, !.smu[i.s] = {th}]
                  [] i.op = "s.Unlock" ->
                       [threads EXCEPT !.run[th] = rest, !.smu[i.s] = {}]
                  [] i.op = "e.closed" ->
                       [threads EXCEPT !.run[th] =
                          IF hubClosed THEN <<Instr("e.Unlock", 0)>> ELSE rest]
                  [] OTHER ->
                       [threads EXCEPT !.run[th] = rest]
           /\ hubClosed' = (hubClosed \/ i.op = "close")
    /\ UNCHANGED <<cryptor, source, topics, cleanupLoop, subs, store, now, panicked, last>>

NextLocks ==
    \/ \E th \in Callers : Start(th)
    \/ Ticker
    \/ SweeperExit
    \/ \E th \in LockThreads : Step(th)

\* sync.Mutex and sync.RWMutex hand a lock to a goroutine that keeps waiting
\* for it, and a select with several ready cases takes each of them sooner
\* or later.
SpecLocks ==
    /\ InitLocks
    /\ [][NextLocks]_vars
    /\ \A th \in LockThreads : SF_vars(Step(th))
    /\ SF_vars(SweeperExit)

\* The subscriber mutexes goroutine th holds.
HeldBy(th) == { s \in LockSubs : threads.smu[s] = {th} }

(***************************************************************************)
(* C39.  The locks cannot deadlock.  A goroutine that is about to take the *)
(* hub lock, for writing or for reading, holds no subscriber mutex; no     *)
(* goroutine holds two subscriber mutexes or takes one it holds; whenever  *)
(* a method is under way, some goroutine can take its next step; and every *)
(* method that was started returns.                                        *)
(***************************************************************************)
C39_LocksCannotDeadlock ==
    /\ [](\A th \in LockThreads :
            /\ Cardinality(HeldBy(th)) <= 1
            /\ threads.run[th] # <<>> =>
                 LET i == Head(threads.run[th])
                 IN  /\ i.op \in {"e.Lock", "e.RLock"} =>
                          /\ HeldBy(th) = {}
                          /\ threads.mu # {th}
                          /\ th \notin threads.rd
                     /\ i.op = "s.Lock" => HeldBy(th) = {})
    /\ []((\E th \in LockThreads : threads.run[th] # <<>>) =>
            \E th \in LockThreads :
               /\ threads.run[th] # <<>>
               /\ \/ CanRun(th, Head(threads.run[th]))
                  \/ /\ Head(threads.run[th]).op = "wg.Wait"
                     /\ hubClosed /\ cleanupLoop = "select"
                     /\ threads.run[0] = <<>>)
    /\ \A th \in LockThreads :
          (threads.run[th] # <<>>) ~> (threads.run[th] = <<>>)

\* A caller holds the hub lock and a subscriber mutex while a timer callback
\* waits for that mutex and the sweep for the hub lock.
C39_Witness ==
    /\ threads.mu = {2}
    /\ HeldBy(2) # {}
    /\ threads.run[1] # <<>>
    /\ Head(threads.run[1]).op = "s.Lock"
    /\ Head(threads.run[1]).s \in HeldBy(2)
    /\ Len(threads.run[1]) = 2
    /\ threads.run[0] # <<>>
    /\ Head(threads.run[0]).op = "e.Lock"

(***************************************************************************)
(* The subscribers under the timers: a debounce timer that is pending      *)
(* fires, and the callback of a timer that fired gets the mutex.           *)
(***************************************************************************)
NextTimers == NextOver({Event(EventTypeModify, "f2", "/b", "")})

SpecTimers ==
    /\ Init
    /\ [][NextTimers]_vars
    /\ \A k \in 1..MaxSubs : WF_vars(TimerFire(k)) /\ WF_vars(flush(k))

\* A flush of subscriber s is on its way: its timer is pending, or has
\* fired with its callback yet to run.
FlushDue(s) == s.timer = "pending" \/ s.fired > 0 \/ s.orphans > 0

(***************************************************************************)
(* C40.  No event is stranded in a buffer: an open subscriber with events  *)
(* in its buffer has a flush on its way, and the events in the buffer of a *)
(* subscriber are flushed (or the subscriber is closed) in the end.        *)
(***************************************************************************)
C40_BufferedEventsGetFlushed ==
    /\ [](\A k \in Objs :
            (~subs[k].closed /\ subs[k].buffer # <<>>) => FlushDue(subs[k]))
    /\ \A k \in 1..MaxSubs :
          (k \in Objs /\ subs[k].buffer # <<>>)
              ~> (k \in Objs /\ (subs[k].buffer = <<>> \/ subs[k].closed))

====
